---------------------------- MODULE Spec2Model ----------------------------
(***************************************************************************)
(* A model of package brdoc (inovacc/brdoc): the CPF and CNPJ validators,  *)
(* their normalisation, check-digit, formatting and generation routines.   *)
(*                                                                         *)
(* A Go string is a sequence of byte values (0..255); a Go []int slice is  *)
(* the sequence of its visible elements together with its capacity.        *)
(***************************************************************************)
EXTENDS Integers, Sequences, FiniteSets, TLC

VARIABLES
    cpf,    \* the *CPF instance: [num |-> c.cpfNumber's elements, cap |-> cap(c.cpfNumber)]
    op,     \* the operation that was called last ("new" right after construction)
    arg,    \* the string it was called with (for Generate: the bytes/ints the rng drew)
    ret,    \* what it returned: [ok |-> bool result / err == nil, str |-> string result, n |-> int result]
    rng,    \* the package-level random source: how many times its state was advanced
    gor     \* the goroutines that generate: for each its call and its place in it

vars == <<cpf, op, arg, ret, rng, gor>>

----------------------------------------------------------------------------
(* Package constants and byte values of the characters the code names.     *)

CpfLength == 11
CnpjLength == 14

Ch0 == 48
Ch9 == 57
ChA == 65
ChZ == 90
Cha == 97
Chz == 122
ChDot == 46
ChHyphen == 45
ChSlash == 47
ChSpace == 32

\* the region labels, written without their diacritics
IsDigit0 == "Rio Grande do Sul"
IsDigit1 == "Federal District, Goias, Mato Grosso do Sul, and Tocantins"
IsDigit2 == "Para, Amazonas, Acre, Amapa, Rondonia, and Roraima"
IsDigit3 == "Ceara, Maranhao, and Piaui"
IsDigit4 == "Pernambuco, Rio Grande do Norte, Paraiba, and Alagoas"
IsDigit5 == "Bahia and Sergipe"
IsDigit6 == "Minas Gerais"
IsDigit7 == "Rio de Janeiro and Espirito Santo"
IsDigit8 == "Sao Paulo"
IsDigit9 == "Parana and Santa Catarina"

----------------------------------------------------------------------------
(* Bounds of the model.                                                    *)

\* CPF inputs are built on the bodies BodyOf(0) .. BodyOf(MaxBody).
MaxBody == 29
\* CNPJ inputs are built on the bases BaseOf(0) .. BaseOf(MaxBase).
MaxBase == 29
\* Longest prefix of the long sample inputs that is tried (length cases).
MaxPrefix == 16
\* Longest string handed directly to calculateDV.
MaxDVLen == 17
\* Goroutines that call the generators at the same time.
NumGoroutines == 2
\* Longest file handed to a bulk validation, in lines.
MaxLines == 3
\* Largest --count handed to a generation.
MaxCount == 3
\* Most calls made on one CPF instance.
MaxCalls == 3

----------------------------------------------------------------------------
(* Helpers of the Go runtime and standard library the code calls.          *)

RECURSIVE Itoa(_)
\* strconv.Itoa on a non-negative int: its decimal digits as bytes.
Itoa(n) == IF n < 10 THEN <<Ch0 + n>> ELSE Itoa(n \div 10) \o <<Ch0 + (n % 10)>>

RECURSIVE Repeat(_, _)
\* strings.Repeat(s, count)
Repeat(s, count) == IF count = 0 THEN <<>> ELSE s \o Repeat(s, count - 1)

\* append(s, v) on a []int slice s = [num, cap]: in place while the capacity
\* allows, otherwise into a new array of twice the capacity.
AppendInt(s, v) ==
    IF Len(s.num) < s.cap
    THEN [num |-> Append(s.num, v), cap |-> s.cap]
    ELSE [num |-> Append(s.num, v), cap |-> IF s.cap = 0 THEN 1 ELSE 2 * s.cap]

\* notAcceptedCPF as init() fills it: the ten strings of 11 equal digits.
notAcceptedCPF == { Repeat(Itoa(i), 11) : i \in 0..9 }

RECURSIVE ReplaceAll(_, _)
\* strings.ReplaceAll(s, old, "") for a one-byte old
ReplaceAll(s, old) ==
    IF s = <<>> THEN <<>>
    ELSE IF Head(s) = old THEN ReplaceAll(Tail(s), old)
    ELSE <<Head(s)>> \o ReplaceAll(Tail(s), old)

\* unicode.ToUpper of a character of two bytes, encoded: the dotless i (U+0131)
\* and the long s (U+017F) become the ASCII letters I and S; the inputs hold no
\* other two-byte character that has an upper case
upperOfTwoBytes(b1, b2) ==
    LET r == (b1 - 192) * 64 + (b2 - 128)
    IN IF r = 305 THEN <<73>> ELSE IF r = 383 THEN <<83>> ELSE <<b1, b2>>

RECURSIVE toUpperFrom(_, _)
\* strings.ToUpper from index i on: ASCII letters byte by byte, a two-byte
\* character through unicode.ToUpper, and a byte that starts no character as
\* utf8.RuneError, which strings.Map writes as the three bytes of U+FFFD; the
\* inputs hold no character of three or four bytes
toUpperFrom(s, i) ==
    IF i > Len(s) THEN <<>>
    ELSE IF s[i] < 128
         THEN <<IF s[i] >= Cha /\ s[i] <= Chz THEN s[i] - Cha + ChA ELSE s[i]>>
              \o toUpperFrom(s, i + 1)
    ELSE IF s[i] \in 194..223 /\ i < Len(s) /\ s[i + 1] \in 128..191
         THEN upperOfTwoBytes(s[i], s[i + 1]) \o toUpperFrom(s, i + 2)
    ELSE <<239, 191, 189>> \o toUpperFrom(s, i + 1)

\* strings.ToUpper
ToUpper(s) == toUpperFrom(s, 1)

----------------------------------------------------------------------------
(* CPF: private methods.                                                   *)

\* CPF.isDigit
isDigit(ch) == ch >= Ch0 /\ ch <= Ch9

RECURSIVE cleanLoopStop(_, _, _)
\* cleanLoop leaving the loop at the first character that is no digit
cleanLoopStop(s, value, i) ==
    IF i > Len(value) THEN s
    ELSE IF value[i] >= Ch0 /\ value[i] <= Ch9
         THEN cleanLoopStop(AppendInt(s, value[i] - Ch0), value, i + 1)
         ELSE s

RECURSIVE cleanLoop(_, _, _)
\* the loop of CPF.clean from index i (1-based) on
cleanLoop(s, value, i) ==
    IF i > Len(value) THEN s
    ELSE IF value[i] >= Ch0 /\ value[i] <= Ch9
         THEN cleanLoop(AppendInt(s, value[i] - Ch0), value, i + 1)
         ELSE cleanLoop(s, value, i + 1)

\* CPF.clean appending to what the instance held
cleanKeeping(c, value) ==
    LET sized == IF c.cap < CpfLength
                 THEN [num |-> <<>>, cap |-> CpfLength]
                 ELSE c
    IN cleanLoop(sized, value, 1)

\* CPF.clean: the instance's cpfNumber after the call
clean(c, value) ==
    LET reset == [num |-> <<>>, cap |-> c.cap]
        sized == IF reset.cap < CpfLength
                 THEN [num |-> <<>>, cap |-> CpfLength]
                 ELSE reset
    IN cleanLoop(sized, value, 1)

RECURSIVE processRemainingDigits(_, _, _)
\* CPF.processRemainingDigits: existingData followed by the digits of value[startIdx..]
processRemainingDigits(value, startIdx, existingData) ==
    IF startIdx > Len(value) THEN existingData
    ELSE IF isDigit(value[startIdx])
         THEN processRemainingDigits(value, startIdx + 1, Append(existingData, value[startIdx]))
         ELSE processRemainingDigits(value, startIdx + 1, existingData)

RECURSIVE digitsLoopTruncated(_, _, _)
\* the loop of CPF.digits returning the full buffer instead of falling back
digitsLoopTruncated(value, i, buf) ==
    IF i > Len(value) THEN buf
    ELSE IF ~isDigit(value[i]) THEN digitsLoopTruncated(value, i + 1, buf)
    ELSE IF Len(buf) >= CpfLength THEN buf
    ELSE digitsLoopTruncated(value, i + 1, Append(buf, value[i]))

RECURSIVE digitsLoop(_, _, _)
\* the loop of CPF.digits from index i on; buf is buf[:n]
digitsLoop(value, i, buf) ==
    IF i > Len(value) THEN buf
    ELSE IF ~isDigit(value[i]) THEN digitsLoop(value, i + 1, buf)
    ELSE IF Len(buf) >= CpfLength THEN processRemainingDigits(value, i, buf)
    ELSE digitsLoop(value, i + 1, Append(buf, value[i]))

\* CPF.digits
digits(value) == digitsLoop(value, 1, <<>>)

RECURSIVE weightedSum(_, _, _)
\* sum of value[k] * (top - (k-1)) for k = i..Len(value): the loops of
\* calculateFirstDigit (top = 10) and calculateSecondDigit (top = 11)
weightedSum(value, top, i) ==
    IF i > Len(value) THEN 0
    ELSE value[i] * (top - (i - 1)) + weightedSum(value, top, i + 1)

\* clampRest without the case rest = 10
clampRestOnly11(rest) == IF rest = 11 THEN 0 ELSE rest

\* the remainder-to-digit rule shared by both CPF check digits
clampRest(rest) == IF rest = 10 \/ rest = 11 THEN 0 ELSE rest

\* CPF.calculateFirstDigit
calculateFirstDigit(value) == clampRest((weightedSum(value, 10, 1) * 10) % 11)

\* calculateSecondDigit with the weights of the first digit
calculateSecondDigitTop10(value) == clampRest((weightedSum(value, 10, 1) * 10) % 11)

\* CPF.calculateSecondDigit
calculateSecondDigit(value) == clampRest((weightedSum(value, 11, 1) * 10) % 11)

\* append(value[:9], dv1) inside CPF.validate: value[:9] shares value's array and
\* keeps its capacity, so the append writes index 9 of that array when 9 < cap.
appendHead(s, dv1) ==
    IF 9 < s.cap THEN [s EXCEPT !.num[10] = dv1] ELSE s

\* CPF.validate on the slice s: [ret |-> result, s |-> the slice afterwards]
validate(s) ==
    IF Len(s.num) # CpfLength THEN [ret |-> FALSE, s |-> s]
    ELSE LET dv1 == calculateFirstDigit(SubSeq(s.num, 1, 9))
             after == appendHead(s, dv1)
             dv2 == calculateSecondDigit(Append(SubSeq(s.num, 1, 9), dv1))
         IN [ret |-> (dv1 = after.num[10] /\ dv2 = after.num[11]), s |-> after]

\* isAccepted looking the raw value up, not its digits
isAcceptedRaw(value) == value \notin notAcceptedCPF

\* CPF.isAccepted
isAccepted(value) == digits(value) \notin notAcceptedCPF

\* CPF.length
length(value) == Len(value) = CpfLength

\* maskCPF writing digit 10 in both check positions
maskCPFDup(value) ==
    << Ch0 + value[1], Ch0 + value[2], Ch0 + value[3], ChDot,
       Ch0 + value[4], Ch0 + value[5], Ch0 + value[6], ChDot,
       Ch0 + value[7], Ch0 + value[8], Ch0 + value[9], ChHyphen,
       Ch0 + value[10], Ch0 + value[10] >>

\* maskCPF writing the two check digits in the other order
maskCPFSwapped(value) ==
    << Ch0 + value[1], Ch0 + value[2], Ch0 + value[3], ChDot,
       Ch0 + value[4], Ch0 + value[5], Ch0 + value[6], ChDot,
       Ch0 + value[7], Ch0 + value[8], Ch0 + value[9], ChHyphen,
       Ch0 + value[11], Ch0 + value[10] >>

\* CPF.maskCPF
maskCPF(value) ==
    << Ch0 + value[1], Ch0 + value[2], Ch0 + value[3], ChDot,
       Ch0 + value[4], Ch0 + value[5], Ch0 + value[6], ChDot,
       Ch0 + value[7], Ch0 + value[8], Ch0 + value[9], ChHyphen,
       Ch0 + value[10], Ch0 + value[11] >>

----------------------------------------------------------------------------
(* CPF: public methods.  Each gives the result and the instance afterwards. *)

\* what a call returned: a boolean (or err == nil), a string, a number, a region
\* label, the validator it called; panic tells that the call ended in a run-time
\* panic instead
NoRet == [ok |-> FALSE, str |-> <<>>, n |-> 0, label |-> "", callee |-> "", panic |-> FALSE]

\* NewCPF
NewCPF == [num |-> <<>>, cap |-> 0]

\* CPF.Validate
CPF_Validate(c, value) ==
    LET s == clean(c, value)
    IN IF isAccepted(value) /\ length(s.num)
       THEN LET v == validate(s) IN [c |-> v.s, ok |-> v.ret]
       ELSE [c |-> s, ok |-> FALSE]

\* CPF.Format testing the length of the raw value, not of its digits
CPF_FormatRawLen(c, value) ==
    LET s == clean(c, value)
    IN IF ~isAccepted(value) THEN [c |-> s, ok |-> FALSE, str |-> <<>>]
       ELSE IF Len(value) # CpfLength \/ Len(s.num) # CpfLength
            THEN [c |-> s, ok |-> FALSE, str |-> <<>>]
       ELSE [c |-> s, ok |-> TRUE, str |-> maskCPF(s.num)]

\* CPF.Format: ok is err == nil
CPF_Format(c, value) ==
    LET s == clean(c, value)
    IN IF ~isAccepted(value) THEN [c |-> s, ok |-> FALSE, str |-> <<>>]
       ELSE IF Len(s.num) # CpfLength THEN [c |-> s, ok |-> FALSE, str |-> <<>>]
       ELSE [c |-> s, ok |-> TRUE, str |-> maskCPF(s.num)]

\* the run-time check of the index expression s[i] on a slice or string of
\* length len, and of the slice expression s[:hi] on a slice of capacity cap
indexPanics(len, i) == i < 0 \/ i >= len
slicePanics(cap, hi) == hi < 0 \/ hi > cap

\* the switch of CPF.CheckOrigin on the digit d
originOf(d) ==
    CASE d = 0 -> IsDigit0
      [] d = 1 -> IsDigit1
      [] d = 2 -> IsDigit2
      [] d = 3 -> IsDigit3
      [] d = 4 -> IsDigit4
      [] d = 5 -> IsDigit5
      [] d = 6 -> IsDigit6
      [] d = 7 -> IsDigit7
      [] d = 8 -> IsDigit8
      [] d = 9 -> IsDigit9
      [] OTHER -> ""

\* CPF.CheckOrigin answering only when all 11 digits are there
CPF_CheckOriginFullOnly(c, value) ==
    LET s == clean(c, value)
    IN IF Len(s.num) # CpfLength THEN [c |-> s, label |-> "", panic |-> FALSE]
       ELSE [c |-> s, label |-> originOf(s.num[9]), panic |-> FALSE]

\* CPF.CheckOrigin returning early only below 8 digits
CPF_CheckOriginBelow8(c, value) ==
    LET s == clean(c, value)
    IN IF Len(s.num) < 8 THEN [c |-> s, label |-> "", panic |-> FALSE]
       ELSE IF indexPanics(Len(s.num), 8) THEN [c |-> s, label |-> "", panic |-> TRUE]
       ELSE [c |-> s, label |-> originOf(s.num[9]), panic |-> FALSE]

\* CPF.CheckOrigin
CPF_CheckOrigin(c, value) ==
    LET s == clean(c, value)
    IN IF Len(s.num) < 9 THEN [c |-> s, label |-> "", panic |-> FALSE]
       ELSE IF indexPanics(Len(s.num), 8) THEN [c |-> s, label |-> "", panic |-> TRUE]
       ELSE [c |-> s, label |-> originOf(s.num[9]), panic |-> FALSE]

RECURSIVE itoaAll(_, _)
\* the strings.Builder loop of CPF.Generate
itoaAll(number, i) ==
    IF i > Len(number) THEN <<>> ELSE Itoa(number[i]) \o itoaAll(number, i + 1)

\* CPF.Generate, given the nine values rng.Intn(10) returned
CPF_Generate(drawn) ==
    LET n10 == Append(drawn, calculateFirstDigit(drawn))
        n11 == Append(n10, calculateSecondDigit(n10))
    IN digits(itoaAll(n11, 1))

----------------------------------------------------------------------------
(* CNPJ.                                                                   *)

\* charToValue: the conversion map, entry by entry
charToValue ==
    (Ch0 :> 0) @@ (49 :> 1) @@ (50 :> 2) @@ (51 :> 3) @@ (52 :> 4) @@
    (53 :> 5) @@ (54 :> 6) @@ (55 :> 7) @@ (56 :> 8) @@ (Ch9 :> 9) @@
    (ChA :> 17) @@ (66 :> 18) @@ (67 :> 19) @@ (68 :> 20) @@ (69 :> 21) @@
    (70 :> 22) @@ (71 :> 23) @@ (72 :> 24) @@ (73 :> 25) @@ (74 :> 26) @@
    (75 :> 27) @@ (76 :> 28) @@ (77 :> 29) @@ (78 :> 30) @@ (79 :> 31) @@
    (80 :> 32) @@ (81 :> 33) @@ (82 :> 34) @@ (83 :> 35) @@ (84 :> 36) @@
    (85 :> 37) @@ (86 :> 38) @@ (87 :> 39) @@ (88 :> 40) @@ (89 :> 41) @@
    (ChZ :> 42)

\* the weights in falling order
weightsDescending == <<9, 8, 7, 6, 5, 4, 3, 2>>

\* weights of calculateDV
weights == <<2, 3, 4, 5, 6, 7, 8, 9>>

RECURSIVE dvLoopShortCycle(_, _, _, _)
\* dvLoop restarting the weights one element early
dvLoopShortCycle(value, i, j, sum) ==
    IF i < 1 THEN [err |-> FALSE, sum |-> sum]
    ELSE IF value[i] \notin DOMAIN charToValue THEN [err |-> TRUE, sum |-> 0]
    ELSE dvLoopShortCycle(value, i - 1, (j + 1) % (Len(weights) - 1),
                          sum + charToValue[value[i]] * weights[j + 1])

RECURSIVE dvLoopDefault(_, _, _, _)
\* dvLoop reading the map without its ok result: an unmapped character counts 0
dvLoopDefault(value, i, j, sum) ==
    IF i < 1 THEN [err |-> FALSE, sum |-> sum]
    ELSE dvLoopDefault(value, i - 1, (j + 1) % Len(weights),
                       sum + (IF value[i] \in DOMAIN charToValue
                              THEN charToValue[value[i]] ELSE 0) * weights[j + 1])

RECURSIVE dvLoop(_, _, _, _)
\* the loop of calculateDV at index i (1-based, running down to 1) with weight
\* index j (0-based) and the sum so far: [err |-> an unmapped character was met, sum]
dvLoop(value, i, j, sum) ==
    IF i < 1 THEN [err |-> FALSE, sum |-> sum]
    ELSE IF value[i] \notin DOMAIN charToValue THEN [err |-> TRUE, sum |-> 0]
    ELSE dvLoop(value, i - 1, (j + 1) % Len(weights),
                sum + charToValue[value[i]] * weights[j + 1])

\* dvOfRemainder without the rule for the remainders 0 and 1
dvOfRemainderNoRule(remainder) == 11 - remainder

\* the remainder-to-digit rule of calculateDV
dvOfRemainder(remainder) ==
    IF remainder = 0 \/ remainder = 1 THEN 0 ELSE 11 - remainder

\* CNPJ.calculateDV: [err |-> err != nil, dv |-> the int returned]
calculateDV(value) ==
    LET r == dvLoop(value, Len(value), 0, 0)
    IN IF r.err THEN [err |-> TRUE, dv |-> 0]
       ELSE [err |-> FALSE, dv |-> dvOfRemainder(r.sum % 11)]

\* normalizeChar without the lowercase branch
normalizeCharNoLower(ch) ==
    IF (ch >= Ch0 /\ ch <= Ch9) \/ (ch >= ChA /\ ch <= ChZ)
    THEN [ok |-> TRUE, ch |-> ch]
    ELSE [ok |-> FALSE, ch |-> 0]

\* normalizeChar keeping a lowercase letter as it is written
normalizeCharLowerKept(ch) ==
    IF ch >= Cha /\ ch <= Chz THEN [ok |-> TRUE, ch |-> ch]
    ELSE IF (ch >= Ch0 /\ ch <= Ch9) \/ (ch >= ChA /\ ch <= ChZ)
         THEN [ok |-> TRUE, ch |-> ch]
         ELSE [ok |-> FALSE, ch |-> 0]

\* CNPJ.normalizeChar: [ok, ch]
normalizeChar(ch) ==
    IF ch >= Cha /\ ch <= Chz THEN [ok |-> TRUE, ch |-> ch - Cha + ChA]
    ELSE IF (ch >= Ch0 /\ ch <= Ch9) \/ (ch >= ChA /\ ch <= ChZ)
         THEN [ok |-> TRUE, ch |-> ch]
         ELSE [ok |-> FALSE, ch |-> 0]

RECURSIVE processRemainingCharsRaw(_, _, _)
\* processRemainingChars appending the characters as they are written
processRemainingCharsRaw(value, startIdx, existingData) ==
    IF startIdx > Len(value) THEN existingData
    ELSE IF normalizeChar(value[startIdx]).ok
         THEN processRemainingCharsRaw(value, startIdx + 1,
                                       Append(existingData, value[startIdx]))
         ELSE processRemainingCharsRaw(value, startIdx + 1, existingData)

RECURSIVE processRemainingChars(_, _, _)
\* CNPJ.processRemainingChars
processRemainingChars(value, startIdx, existingData) ==
    IF startIdx > Len(value) THEN existingData
    ELSE IF normalizeChar(value[startIdx]).ok
         THEN processRemainingChars(value, startIdx + 1,
                                    Append(existingData, normalizeChar(value[startIdx]).ch))
         ELSE processRemainingChars(value, startIdx + 1, existingData)

RECURSIVE cnpjDigitsLoop(_, _, _)
\* the loop of CNPJ.digits from index i on; buf is buf[:n]
cnpjDigitsLoop(value, i, buf) ==
    IF i > Len(value) THEN buf
    ELSE IF ~normalizeChar(value[i]).ok THEN cnpjDigitsLoop(value, i + 1, buf)
    ELSE IF Len(buf) >= CnpjLength THEN processRemainingChars(value, i, buf)
    ELSE cnpjDigitsLoop(value, i + 1, Append(buf, normalizeChar(value[i]).ch))

\* CNPJ.digits
cnpjDigits(value) == cnpjDigitsLoop(value, 1, <<>>)

\* CNPJ.Validate
CNPJ_Validate(value) ==
    LET cleaned == cnpjDigits(value)
    IN IF Len(cleaned) # CnpjLength THEN FALSE
       ELSE IF cleaned[13] < Ch0 \/ cleaned[13] > Ch9 THEN FALSE
       ELSE IF cleaned[14] < Ch0 \/ cleaned[14] > Ch9 THEN FALSE
       ELSE LET dv1 == cleaned[13] - Ch0
                dv2 == cleaned[14] - Ch0
                base == SubSeq(cleaned, 1, 12)
                dv1Calc == calculateDV(base)
            IN IF dv1Calc.err THEN FALSE
               ELSE LET dv2Calc == calculateDV(base \o Itoa(dv1Calc.dv))
                    IN IF dv2Calc.err THEN FALSE
                       ELSE dv1Calc.dv = dv1 /\ dv2Calc.dv = dv2

\* CNPJ.Validate leaves through one of its two err != nil branches
CNPJ_ValidateErr(value) ==
    LET cleaned == cnpjDigits(value)
    IN IF Len(cleaned) # CnpjLength THEN FALSE
       ELSE IF cleaned[13] < Ch0 \/ cleaned[13] > Ch9 THEN FALSE
       ELSE IF cleaned[14] < Ch0 \/ cleaned[14] > Ch9 THEN FALSE
       ELSE LET dv1Calc == calculateDV(SubSeq(cleaned, 1, 12))
            IN dv1Calc.err \/ calculateDV(SubSeq(cleaned, 1, 12) \o Itoa(dv1Calc.dv)).err

\* CNPJ.Format testing the length of the raw value, not of its normalized form
CNPJ_FormatRawLen(value) ==
    LET cleaned == cnpjDigits(value)
    IN IF Len(value) # CnpjLength \/ Len(cleaned) # CnpjLength
       THEN [ok |-> FALSE, str |-> <<>>]
       ELSE [ok |-> TRUE,
             str |-> SubSeq(cleaned, 1, 2) \o <<ChDot>> \o SubSeq(cleaned, 3, 5) \o <<ChDot>>
                     \o SubSeq(cleaned, 6, 8) \o <<ChSlash>> \o SubSeq(cleaned, 9, 12)
                     \o <<ChHyphen>> \o SubSeq(cleaned, 13, 14)]

\* CNPJ.Format with a period where the slash belongs
CNPJ_FormatNoSlash(value) ==
    LET cleaned == cnpjDigits(value)
    IN IF Len(cleaned) # CnpjLength THEN [ok |-> FALSE, str |-> <<>>]
       ELSE [ok |-> TRUE,
             str |-> SubSeq(cleaned, 1, 2) \o <<ChDot>> \o SubSeq(cleaned, 3, 5) \o <<ChDot>>
                     \o SubSeq(cleaned, 6, 8) \o <<ChDot>> \o SubSeq(cleaned, 9, 12)
                     \o <<ChHyphen>> \o SubSeq(cleaned, 13, 14)]

\* CNPJ.Format: ok is err == nil
CNPJ_Format(value) ==
    LET cleaned == cnpjDigits(value)
    IN IF Len(cleaned) # CnpjLength THEN [ok |-> FALSE, str |-> <<>>]
       ELSE [ok |-> TRUE,
             str |-> SubSeq(cleaned, 1, 2) \o <<ChDot>> \o SubSeq(cleaned, 3, 5) \o <<ChDot>>
                     \o SubSeq(cleaned, 6, 8) \o <<ChSlash>> \o SubSeq(cleaned, 9, 12)
                     \o <<ChHyphen>> \o SubSeq(cleaned, 13, 14)]

\* baseChar drawing letters under legacy
baseCharLegacyLetters(legacy, coin, k) ==
    IF legacy THEN ChA + k
    ELSE IF coin = 0 THEN Ch0 + k ELSE ChA + k

\* one base byte of generateDigits from what the rng returned: coin is
\* rng.Intn(2) (not drawn under legacy), k is rng.Intn(10) or rng.Intn(26)
baseChar(legacy, coin, k) ==
    IF legacy THEN Ch0 + k
    ELSE IF coin = 0 THEN Ch0 + k ELSE ChA + k

\* CNPJ.generateDigits from the base the draws filled in
generateDigits(cnpjBase) ==
    LET dv1 == calculateDV(cnpjBase)
    IN IF dv1.err THEN <<>>
       ELSE LET dv2 == calculateDV(cnpjBase \o Itoa(dv1.dv))
            IN IF dv2.err THEN <<>>
               ELSE cnpjBase \o Itoa(dv1.dv) \o Itoa(dv2.dv)

----------------------------------------------------------------------------
(* Run-time panics of the validators, and the utility function.            *)

\* CPF.digits and CNPJ.digits write buf[n] for every character kept before the
\* fallback: n runs over 0..min(kept, len(buf)) - 1
bufPanics(kept, buflen) ==
    \E n \in 0..((IF kept < buflen THEN kept ELSE buflen) - 1) : indexPanics(buflen, n)

\* CPF.validate: value[:9], value[9] and value[10] once the length is 11
validatePanics(s) ==
    /\ Len(s.num) = CpfLength
    /\ \/ slicePanics(s.cap, 9)
       \/ indexPanics(Len(s.num), 9)
       \/ indexPanics(Len(s.num), 10)

\* CPF.Validate panics
CPF_ValidatePanics(c, value) ==
    LET s == clean(c, value)
    IN \/ bufPanics(Len(digits(value)), CpfLength)
       \/ (isAccepted(value) /\ length(s.num) /\ validatePanics(s))

\* calculateDV reads weights[j] for each character of value
dvPanics(value) == \E k \in 0..(Len(value) - 1) : indexPanics(Len(weights), k % Len(weights))

\* CNPJ.Validate panics: cleaned[12], cleaned[13] and cleaned[:12] once the
\* length is 14, and the two calls of calculateDV
CNPJ_ValidatePanics(value) ==
    LET cleaned == cnpjDigits(value)
    IN \/ bufPanics(Len(cleaned), CnpjLength)
       \/ /\ Len(cleaned) = CnpjLength
          /\ \/ indexPanics(Len(cleaned), 12)
             \/ /\ cleaned[13] >= Ch0 /\ cleaned[13] <= Ch9
                /\ \/ indexPanics(Len(cleaned), 13)
                   \/ /\ cleaned[14] >= Ch0 /\ cleaned[14] <= Ch9
                      /\ \/ slicePanics(Len(cleaned), 12)
                         \/ dvPanics(SubSeq(cleaned, 1, 12))
                         \/ dvPanics(SubSeq(cleaned, 1, 12)
                                     \o Itoa(calculateDV(SubSeq(cleaned, 1, 12)).dv))

\* ValidateDocument measuring doc itself
ValidateDocumentRawLen(doc) ==
    IF Len(doc) = CpfLength
    THEN [docType |-> "CPF", isValid |-> CPF_Validate(NewCPF, doc).ok,
          callee |-> "CPF.Validate", panic |-> CPF_ValidatePanics(NewCPF, doc)]
    ELSE IF Len(doc) = CnpjLength
    THEN [docType |-> "CNPJ", isValid |-> CNPJ_Validate(doc),
          callee |-> "CNPJ.Validate", panic |-> CNPJ_ValidatePanics(doc)]
    ELSE [docType |-> "UNKNOWN", isValid |-> FALSE, callee |-> "", panic |-> FALSE]

\* ValidateDocument: the two results, and the validator it called
ValidateDocument(doc) ==
    LET cleaned == ToUpper(ReplaceAll(ReplaceAll(ReplaceAll(doc, ChDot), ChHyphen), ChSlash))
    IN IF Len(cleaned) = CpfLength
       THEN [docType |-> "CPF", isValid |-> CPF_Validate(NewCPF, doc).ok,
             callee |-> "CPF.Validate", panic |-> CPF_ValidatePanics(NewCPF, doc)]
       ELSE IF Len(cleaned) = CnpjLength
       THEN [docType |-> "CNPJ", isValid |-> CNPJ_Validate(doc),
             callee |-> "CNPJ.Validate", panic |-> CNPJ_ValidatePanics(doc)]
       ELSE [docType |-> "UNKNOWN", isValid |-> FALSE, callee |-> "", panic |-> FALSE]

----------------------------------------------------------------------------
(* The command-line tool: the handling of one line of a bulk validation.   *)

\* the white space strings.TrimSpace removes from a line of ASCII text
AsciiSpace == {9, 10, 11, 12, 13, 32}

RECURSIVE trimLeft(_)
trimLeft(s) == IF s # <<>> /\ Head(s) \in AsciiSpace THEN trimLeft(Tail(s)) ELSE s

RECURSIVE trimRight(_)
trimRight(s) ==
    IF s # <<>> /\ s[Len(s)] \in AsciiSpace THEN trimRight(SubSeq(s, 1, Len(s) - 1)) ELSE s

TrimSpace(s) == trimRight(trimLeft(s))

\* the texts the tool writes: "valid", "invalid", and the tab and newline
TextValid == <<118, 97, 108, 105, 100>>
TextInvalid == <<105, 110>> \o TextValid
ChTab == 9
ChNewline == 10
ChHash == 35

\* cpfLine writing the scanned text, not the trimmed line, after "invalid"
cpfLineUntrimmed(c, text) ==
    LET line == TrimSpace(text)
    IN IF line = <<>> \/ Head(line) = ChHash
       THEN [c |-> c, out |-> <<>>, anyInvalid |-> FALSE]
       ELSE LET v == CPF_Validate(c, line)
            IN IF v.ok
               THEN LET f == CPF_Format(v.c, line)
                    IN IF f.ok
                       THEN [c |-> f.c, out |-> TextValid \o <<ChTab>> \o f.str \o <<ChNewline>>,
                             anyInvalid |-> FALSE]
                       ELSE [c |-> f.c, out |-> TextValid \o <<ChNewline>>, anyInvalid |-> FALSE]
               ELSE [c |-> v.c, out |-> TextInvalid \o <<ChTab>> \o text \o <<ChNewline>>,
                     anyInvalid |-> TRUE]

\* the body of the cpf command's loop over the lines of --from: what it writes
\* for the scanned text, whether it set anyInvalid, and the validator afterwards
cpfLine(c, text) ==
    LET line == TrimSpace(text)
    IN IF line = <<>> \/ Head(line) = ChHash
       THEN [c |-> c, out |-> <<>>, anyInvalid |-> FALSE]
       ELSE LET v == CPF_Validate(c, line)
            IN IF v.ok
               THEN LET f == CPF_Format(v.c, line)
                    IN IF f.ok
                       THEN [c |-> f.c, out |-> TextValid \o <<ChTab>> \o f.str \o <<ChNewline>>,
                             anyInvalid |-> FALSE]
                       ELSE [c |-> f.c, out |-> TextValid \o <<ChNewline>>, anyInvalid |-> FALSE]
               ELSE [c |-> v.c, out |-> TextInvalid \o <<ChTab>> \o line \o <<ChNewline>>,
                     anyInvalid |-> TRUE]

\* the body of the cnpj command's loop over the lines of --from
cnpjLine(text) ==
    LET line == TrimSpace(text)
    IN IF line = <<>> \/ Head(line) = ChHash
       THEN [out |-> <<>>, anyInvalid |-> FALSE]
       ELSE IF CNPJ_Validate(line)
            THEN LET f == CNPJ_Format(line)
                 IN IF f.ok
                    THEN [out |-> TextValid \o <<ChTab>> \o f.str \o <<ChNewline>>,
                          anyInvalid |-> FALSE]
                    ELSE [out |-> TextValid \o <<ChNewline>>, anyInvalid |-> FALSE]
            ELSE [out |-> TextInvalid \o <<ChTab>> \o line \o <<ChNewline>>,
                  anyInvalid |-> TRUE]

----------------------------------------------------------------------------
(* The inputs the operations are called with.                              *)

Digit == 0..9
DigitChars == Ch0..Ch9
Alnum == DigitChars \cup (ChA..ChZ)

\* bytes of a sequence of digit values
asBytes(ds) == [i \in 1..Len(ds) |-> Ch0 + ds[i]]

\* the body of the known CPF 123.456.789-09
SampleBody == <<1, 2, 3, 4, 5, 6, 7, 8, 9>>

RECURSIVE digitsOf(_, _)
\* the last width decimal digits of n, as digit values
digitsOf(n, width) ==
    IF width = 0 THEN <<>> ELSE Append(digitsOf(n \div 10, width - 1), n % 10)

\* the k-th sample body: 123456789 + k * 12345679, nine digits of it
BodyOf(k) == digitsOf(123456789 + k * 12345679, 9)

\* 9-digit bodies: the sample bodies and the ten bodies of nine equal digits
Bodies ==
    { BodyOf(k) : k \in 0..MaxBody } \cup { [i \in 1..9 |-> d] : d \in Digit }

\* how the 11 digits ds are written in the input
CPFStyles == {"plain", "masked", "noisy"}
cpfWrite(ds, style) ==
    CASE style = "plain" -> asBytes(ds)
      [] style = "masked" -> maskCPF(ds)
      [] style = "noisy" ->
            <<ChSpace, Cha>> \o asBytes(SubSeq(ds, 1, 3)) \o <<ChSpace>>
            \o asBytes(SubSeq(ds, 4, 9)) \o <<ChSlash, ChZ>>
            \o asBytes(SubSeq(ds, 10, 11)) \o <<ChSpace>>

\* a valid CPF unformatted followed by itself masked: its prefixes give every
\* digit count from 0 up
CPFLong == asBytes(SampleBody \o <<0, 9>>) \o maskCPF(SampleBody \o <<0, 9>>)

CPFInputs ==
    { cpfWrite(b \o <<c1, c2>>, st) : b \in Bodies, c1 \in Digit, c2 \in Digit, st \in CPFStyles }
    \cup { SubSeq(CPFLong, 1, n) : n \in 0..MaxPrefix }

\* the base of the SERPRO example 12ABC34501DE35
SampleBase == <<49, 50, 65, 66, 67, 51, 52, 53, 48, 49, 68, 69>>

\* the 36 characters of the alphabet in order, and a character's place in it
alnumAt(n) == IF n < 10 THEN Ch0 + n ELSE ChA + (n - 10)
alnumIndex(ch) == IF ch <= Ch9 THEN ch - Ch0 ELSE ch - ChA + 10

\* the k-th sample base: character i of the example moved k * i places on in
\* the alphabet (cyclically), so that letters and digits meet every weight
BaseOf(k) == [i \in 1..12 |-> alnumAt((alnumIndex(SampleBase[i]) + k * i) % 36)]

Bases == { BaseOf(k) : k \in 0..MaxBase }

\* characters tried in the two check positions: every digit, and letters
CheckChars == DigitChars \cup {ChA, ChZ}

toLower(ch) == IF ch >= ChA /\ ch <= ChZ THEN ch - ChA + Cha ELSE ch

cnpjMask(cs) ==
    SubSeq(cs, 1, 2) \o <<ChDot>> \o SubSeq(cs, 3, 5) \o <<ChDot>> \o SubSeq(cs, 6, 8)
    \o <<ChSlash>> \o SubSeq(cs, 9, 12) \o <<ChHyphen>> \o SubSeq(cs, 13, 14)

CNPJStyles == {"plain", "masked", "lower"}
cnpjWrite(cs, style) ==
    CASE style = "plain" -> cs
      [] style = "masked" -> cnpjMask(cs)
      [] style = "lower" -> <<ChSpace>> \o cnpjMask([i \in 1..Len(cs) |-> toLower(cs[i])])

CNPJLong == (SampleBase \o <<51, 53>>)
            \o cnpjMask([i \in 1..14 |-> toLower((SampleBase \o <<51, 53>>)[i])])

CNPJInputs ==
    { cnpjWrite(b \o <<c1, c2>>, st) : b \in Bases, c1 \in CheckChars, c2 \in CheckChars,
                                       st \in CNPJStyles }
    \cup { SubSeq(CNPJLong, 1, n) : n \in 0..MaxPrefix }

\* strings handed to calculateDV: prefixes of a long alphanumeric string with
\* one position replaced by any alphanumeric or a character outside the alphabet
DVLong == SampleBase \o <<51, 53>> \o <<ChZ, 57, 81, 55, ChA, 48, 90, 56, 75, 50>>
DVChars == Alnum \cup {Cha, Chz, ChDot, ChSpace, ChSlash, 64, 91, 200}
DVInputs ==
    { [SubSeq(DVLong, 1, n) EXCEPT ![p] = ch] : n \in 1..MaxDVLen, p \in 1..MaxDVLen, ch \in DVChars }
    \cup { <<>> }

\* lines of a bulk file: an input as it is, indented and followed by a carriage
\* return, or commented out; and blank lines
linesOf(inputs) ==
    inputs
    \cup { <<ChSpace, ChTab>> \o v \o <<13>> : v \in inputs }
    \cup { <<ChSpace, ChHash>> \o v : v \in inputs }
    \cup { <<>>, <<ChSpace>>, <<ChTab, 13>> }

\* the CPF and CNPJ lines: check digits as computed or off by one
cpfWithDigits(b, off) ==
    LET dv1 == calculateFirstDigit(b)
    IN b \o <<(dv1 + off) % 10, calculateSecondDigit(b \o <<dv1>>)>>

CPFLineInputs ==
    linesOf({ cpfWrite(cpfWithDigits(b, off), st) : b \in Bodies, off \in {0, 1}, st \in CPFStyles }
            \cup { SubSeq(CPFLong, 1, n) : n \in 0..MaxPrefix })

CNPJLineInputs ==
    linesOf({ cnpjWrite(generateDigits(b), st) : b \in Bases, st \in CNPJStyles }
            \cup { cnpjWrite(b \o <<Ch0, Ch0>>, st) : b \in Bases, st \in CNPJStyles }
            \cup { SubSeq(CNPJLong, 1, n) : n \in 0..MaxPrefix })

\* a string of digits, letters and punctuation with a dotless i, a long s and a
\* byte that starts no character in it
DocLong ==
    <<49, 50, 51, 46, 52, 53, 54, 55, 56, 57, 48, 196, 177, 57, 200, 65, 47, 66, 197, 191,
      50, 45, 51, 255, 52, 53>>

\* a string of 60 bytes, 36 of them letters or digits
VeryLong ==
    CNPJLong \o Repeat(<<ChSpace, ChDot>>, 10) \o <<65, 49, 90, 50, 51, 52, 53, 54>>

\* strings no validator expects: empty, without a digit, of arbitrary bytes, of
\* a few digits, and much longer than any identifier
OddInputs ==
    { <<>>, <<0>>, <<127>>, <<128>>, <<200>>, <<255>>, <<Cha, Chz, ChA>>,
      <<ChDot, ChHyphen, ChSlash>>, <<ChSpace, ChSpace>>,
      CPFLong, CNPJLong, VeryLong,
      asBytes(SampleBody \o <<0>>) \o <<196, 177>>,
      asBytes(SampleBody \o <<0, 9>>) \o <<200>>,
      SubSeq(asBytes(SampleBody), 1, 8) \o <<255>>,
      SampleBase \o <<197, 191, 51, 53>> }
    \cup { SubSeq(DocLong, 1, n) : n \in 0..Len(DocLong) }

\* strings handed to ValidateDocument
DocInputs ==
    { cpfWrite(cpfWithDigits(b, off), st) : b \in Bodies, off \in {0, 1}, st \in CPFStyles }
    \cup { cnpjWrite(generateDigits(b), st) : b \in Bases, st \in CNPJStyles }
    \cup { cnpjWrite(b \o <<Ch0, Ch0>>, st) : b \in Bases, st \in CNPJStyles }
    \cup { SubSeq(CPFLong, 1, n) : n \in 0..MaxPrefix }
    \cup { SubSeq(CNPJLong, 1, n) : n \in 0..MaxPrefix }
    \cup OddInputs

\* strings handed to CheckOrigin: the CPF inputs whose check digits are those
\* computed or off by one, and the prefixes of the long one
OriginInputs ==
    { cpfWrite(cpfWithDigits(b, off), st) : b \in Bodies, off \in {0, 1}, st \in CPFStyles }
    \cup { SubSeq(CPFLong, 1, n) : n \in 0..Len(CPFLong) }
    \cup OddInputs

\* the lines of the files of a bulk validation: for the cpf command a valid CPF,
\* the same masked and indented, one with wrong check digits, a comment, an
\* empty line and a line of white space; the like for the cnpj command
CpfFileTexts ==
    { asBytes(SampleBody \o <<0, 9>>),
      <<ChSpace, ChTab>> \o maskCPF(SampleBody \o <<0, 9>>) \o <<13>>,
      asBytes(SampleBody \o <<0, 0>>) \o <<ChSpace>>,
      <<ChHash>> \o asBytes(SampleBody \o <<0, 9>>),
      <<>>,
      <<ChSpace, ChTab>> }

CnpjFileTexts ==
    { SampleBase \o <<51, 53>>,
      <<ChSpace>> \o cnpjWrite(SampleBase \o <<51, 53>>, "lower") \o <<13>>,
      <<ChTab>> \o SampleBase \o <<Ch0, Ch0>>,
      <<ChSpace, ChHash>> \o SampleBase \o <<51, 53>>,
      <<>>,
      <<13>> }

\* a line of a file: its text, or, with tooLong, a line of more bytes than the
\* scanner's buffer may grow to (maxLine), of which the model keeps only the start
fileLines(texts) ==
    { [text |-> t, tooLong |-> FALSE] : t \in texts }
    \cup { [text |-> asBytes(SampleBody \o <<0, 9>>), tooLong |-> TRUE] }

CpfFileLines == fileLines(CpfFileTexts)
CnpjFileLines == fileLines(CnpjFileTexts)

\* the files of at most MaxLines of the given lines
filesOf(lines) == UNION { [1..n -> lines] : n \in 0..MaxLines }

----------------------------------------------------------------------------
(* The state machine: a validator is constructed, one operation is called  *)
(* on it, and the caller constructs the next one.                          *)

Goroutines == 1..NumGoroutines

\* the result of a call a goroutine made on a shared validator
NoRes == [ok |-> FALSE, str |-> <<>>, label |-> ""]

\* a goroutine that has not called anything yet
Idle == [pc |-> "idle", call |-> "", left |-> 0, seen |-> 0, value |-> <<>>, res |-> NoRes]

Init ==
    /\ cpf = NewCPF
    /\ op = "new"
    /\ arg = <<>>
    /\ ret = NoRet
    /\ rng = 0
    /\ gor = [g \in Goroutines |-> Idle]

\* NewCPF() / NewCNPJ() in a program of one goroutine
New ==
    /\ op \notin {"new", "go", "shared"}
    /\ cpf' = NewCPF
    /\ op' = "new"
    /\ arg' = <<>>
    /\ ret' = NoRet
    /\ UNCHANGED <<rng, gor>>

CPFValidate ==
    /\ op = "new"
    /\ UNCHANGED <<rng, gor>>
    /\ \E value \in CPFInputs \cup OddInputs :
         LET r == CPF_Validate(cpf, value)
         IN /\ cpf' = r.c
            /\ op' = "CPF.Validate"
            /\ arg' = value
            /\ ret' = [NoRet EXCEPT !.ok = r.ok, !.panic = CPF_ValidatePanics(cpf, value)]

CPFFormat ==
    /\ op = "new"
    /\ UNCHANGED <<rng, gor>>
    /\ \E value \in CPFInputs :
         LET r == CPF_Format(cpf, value)
         IN /\ cpf' = r.c
            /\ op' = "CPF.Format"
            /\ arg' = value
            /\ ret' = [NoRet EXCEPT !.ok = r.ok, !.str = r.str]

CPFCheckOrigin ==
    /\ op = "new"
    /\ UNCHANGED <<rng, gor>>
    /\ \E value \in OriginInputs :
         LET r == CPF_CheckOrigin(cpf, value)
         IN /\ cpf' = r.c
            /\ op' = "CPF.CheckOrigin"
            /\ arg' = value
            /\ ret' = [NoRet EXCEPT !.label = r.label, !.panic = r.panic]

CPFGenerate ==
    /\ op = "new"
    /\ UNCHANGED <<rng, gor>>
    /\ \E drawn \in Bodies :
         /\ cpf' = cpf
         /\ op' = "CPF.Generate"
         /\ arg' = drawn
         /\ ret' = [NoRet EXCEPT !.ok = TRUE, !.str = CPF_Generate(drawn)]

CNPJValidate ==
    /\ op = "new"
    /\ UNCHANGED <<rng, gor>>
    /\ \E value \in CNPJInputs \cup OddInputs :
         /\ cpf' = cpf
         /\ op' = "CNPJ.Validate"
         /\ arg' = value
         /\ ret' = [NoRet EXCEPT !.ok = CNPJ_Validate(value),
                                 !.panic = CNPJ_ValidatePanics(value)]

CNPJFormat ==
    /\ op = "new"
    /\ UNCHANGED <<rng, gor>>
    /\ \E value \in CNPJInputs :
         LET r == CNPJ_Format(value)
         IN /\ cpf' = cpf
            /\ op' = "CNPJ.Format"
            /\ arg' = value
            /\ ret' = [NoRet EXCEPT !.ok = r.ok, !.str = r.str]

\* what the rng returned for base character ch: <<rng.Intn(2), rng.Intn(10) or rng.Intn(26)>>
drawOf(ch) == IF ch <= Ch9 THEN <<0, ch - Ch0>> ELSE <<1, ch - ChA>>

\* draws of the rng that generateDigits(false) may see (12 pairs)
GenDraws == { [i \in 1..12 |-> drawOf(b[i])] : b \in Bases }

\* CNPJ.Generate: generateDigits(false) on the base the draws give
CNPJGenerate ==
    /\ op = "new"
    /\ UNCHANGED <<rng, gor>>
    /\ \E d \in GenDraws :
         LET base == [i \in 1..12 |-> baseChar(FALSE, d[i][1], d[i][2])]
         IN /\ cpf' = cpf
            /\ op' = "CNPJ.Generate"
            /\ arg' = base
            /\ ret' = [NoRet EXCEPT !.ok = TRUE, !.str = generateDigits(base)]

\* draws of the rng that generateDigits(true) may see: 12 values of rng.Intn(10),
\* a sample body followed by its own first three digits
LegacyDraws == { b \o SubSeq(b, 1, 3) : b \in Bodies }

\* CNPJ.GenerateLegacy: generateDigits(true) on the base the draws give
CNPJGenerateLegacy ==
    /\ op = "new"
    /\ UNCHANGED <<rng, gor>>
    /\ \E d \in LegacyDraws :
         LET base == [i \in 1..12 |-> baseChar(TRUE, 0, d[i])]
         IN /\ cpf' = cpf
            /\ op' = "CNPJ.GenerateLegacy"
            /\ arg' = base
            /\ ret' = [NoRet EXCEPT !.ok = TRUE, !.str = generateDigits(base)]

\* a direct call of calculateDV
CalculateDV ==
    /\ op = "new"
    /\ UNCHANGED <<rng, gor>>
    /\ \E value \in DVInputs :
         LET r == calculateDV(value)
         IN /\ cpf' = cpf
            /\ op' = "calculateDV"
            /\ arg' = value
            /\ ret' = [NoRet EXCEPT !.ok = ~r.err, !.n = r.dv]

CallValidateDocument ==
    /\ op = "new"
    /\ UNCHANGED <<rng, gor>>
    /\ \E doc \in DocInputs :
         LET r == ValidateDocument(doc)
         IN /\ cpf' = cpf
            /\ op' = "ValidateDocument"
            /\ arg' = doc
            /\ ret' = [NoRet EXCEPT !.label = r.docType, !.ok = r.isValid,
                                    !.callee = r.callee, !.panic = r.panic]

CLICpfLine ==
    /\ op = "new"
    /\ UNCHANGED <<rng, gor>>
    /\ \E text \in CPFLineInputs :
         LET r == cpfLine(cpf, text)
         IN /\ cpf' = r.c
            /\ op' = "brdoc cpf --from"
            /\ arg' = text
            /\ ret' = [NoRet EXCEPT !.ok = ~r.anyInvalid, !.str = r.out]

CLICnpjLine ==
    /\ op = "new"
    /\ UNCHANGED <<rng, gor>>
    /\ \E text \in CNPJLineInputs :
         LET r == cnpjLine(text)
         IN /\ cpf' = cpf
            /\ op' = "brdoc cnpj --from"
            /\ arg' = text
            /\ ret' = [NoRet EXCEPT !.ok = ~r.anyInvalid, !.str = r.out]

\* the calls of rng.Intn a generator makes: 9 in CPF.Generate, 12 in the legacy
\* branch of generateDigits, and 12 times two in the alphanumeric branch
drawsOf(call) ==
    CASE call = "CPF.Generate" -> 9
      [] call = "CNPJ.GenerateLegacy" -> 12
      [] call = "CNPJ.Generate" -> 24

\* a goroutine's place after one more rng.Intn has returned
afterDraw(g) ==
    IF gor[g].left = 1
    THEN [gor[g] EXCEPT !.pc = "done", !.left = 0, !.seen = 0]
    ELSE [gor[g] EXCEPT !.pc = "load", !.left = @ - 1, !.seen = 0]

\* go c.Generate(), go c.GenerateLegacy(): a goroutine enters a generator
GoGenerate ==
    /\ op \in {"new", "go"}
    /\ \E g \in Goroutines, call \in {"CPF.Generate", "CNPJ.Generate", "CNPJ.GenerateLegacy"} :
         /\ gor[g].pc = "idle"
         /\ gor' = [gor EXCEPT ![g] = [Idle EXCEPT !.pc = "load", !.call = call,
                                                   !.left = drawsOf(call)]]
    /\ op' = "go"
    /\ UNCHANGED <<cpf, arg, ret, rng>>

\* rng.Intn, first half: the goroutine reads the state of the source; nothing
\* keeps another goroutine from doing the same
IntnLoad ==
    /\ op = "go"
    /\ \E g \in Goroutines :
         /\ gor[g].pc = "load"
         /\ gor' = [gor EXCEPT ![g].pc = "store", ![g].seen = rng]
    /\ UNCHANGED <<cpf, op, arg, ret, rng>>

\* rng.Intn, second half: the goroutine writes the state that follows the one
\* it read, and the call returns
IntnStore ==
    /\ op = "go"
    /\ \E g \in Goroutines :
         /\ gor[g].pc = "store"
         /\ rng' = gor[g].seen + 1
         /\ gor' = [gor EXCEPT ![g] = afterDraw(g)]
    /\ UNCHANGED <<cpf, op, arg, ret>>

NextCPF == CPFValidate \/ CPFFormat \/ CPFCheckOrigin \/ CPFGenerate \/ New
SpecCPF == Init /\ [][NextCPF]_vars

NextCNPJ == CNPJValidate \/ CNPJFormat \/ CNPJGenerate \/ CNPJGenerateLegacy \/ New
SpecCNPJ == Init /\ [][NextCNPJ]_vars

NextDV == CalculateDV \/ New
SpecDV == Init /\ [][NextDV]_vars

NextFormat == CPFFormat \/ CNPJFormat \/ New
SpecFormat == Init /\ [][NextFormat]_vars

NextDoc == CallValidateDocument \/ New
SpecDoc == Init /\ [][NextDoc]_vars

NextTotal == CPFValidate \/ CNPJValidate \/ CPFCheckOrigin \/ CallValidateDocument \/ New
SpecTotal == Init /\ [][NextTotal]_vars

\* the values two goroutines hand to one shared *CPF: a valid CPF plain and
\* masked, one with wrong check digits, one of equal digits, and a short one
SharedValues ==
    { asBytes(SampleBody \o <<0, 9>>),
      maskCPF(cpfWithDigits(BodyOf(1), 0)),
      asBytes(SampleBody \o <<0, 0>>),
      asBytes([i \in 1..11 |-> 7]),
      asBytes(SubSeq(SampleBody, 1, 8)) }

\* what a call on the validator c does after c.clean(value) has returned, on the
\* cpfNumber s it finds then: the result and the cpfNumber afterwards
afterClean(call, s, value) ==
    CASE call = "CPF.Validate" ->
           IF isAccepted(value) /\ length(s.num)
           THEN [c |-> validate(s).s, res |-> [NoRes EXCEPT !.ok = validate(s).ret]]
           ELSE [c |-> s, res |-> NoRes]
      [] call = "CPF.Format" ->
           IF ~isAccepted(value) \/ Len(s.num) # CpfLength
           THEN [c |-> s, res |-> NoRes]
           ELSE [c |-> s, res |-> [NoRes EXCEPT !.ok = TRUE, !.str = maskCPF(s.num)]]
      [] call = "CPF.CheckOrigin" ->
           IF Len(s.num) < 9
           THEN [c |-> s, res |-> NoRes]
           ELSE [c |-> s, res |-> [NoRes EXCEPT !.label = originOf(s.num[9])]]

\* go c.Validate(v), go c.Format(v), go c.CheckOrigin(v) on the one validator c
SharedCall ==
    /\ op \in {"new", "shared"}
    /\ \E g \in Goroutines, call \in {"CPF.Validate", "CPF.Format", "CPF.CheckOrigin"},
          value \in SharedValues :
         /\ gor[g].pc = "idle"
         /\ gor' = [gor EXCEPT ![g] = [Idle EXCEPT !.pc = "clean", !.call = call,
                                                   !.value = value]]
    /\ op' = "shared"
    /\ UNCHANGED <<cpf, arg, ret, rng>>

\* c.clean(value): the goroutine rewrites the validator's cpfNumber
SharedClean ==
    /\ op = "shared"
    /\ \E g \in Goroutines :
         /\ gor[g].pc = "clean"
         /\ cpf' = clean(cpf, gor[g].value)
         /\ gor' = [gor EXCEPT ![g].pc = "rest"]
    /\ UNCHANGED <<op, arg, ret, rng>>

\* the rest of the call: it reads the cpfNumber that is there now and returns
SharedRest ==
    /\ op = "shared"
    /\ \E g \in Goroutines :
         /\ gor[g].pc = "rest"
         /\ LET r == afterClean(gor[g].call, cpf, gor[g].value)
            IN /\ cpf' = r.c
               /\ gor' = [gor EXCEPT ![g].pc = "done", ![g].res = r.res]
    /\ UNCHANGED <<op, arg, ret, rng>>

NextShared == SharedCall \/ SharedClean \/ SharedRest
SpecShared == Init /\ [][NextShared]_vars

\* brdoc cpf --from FILE and brdoc cnpj --from FILE: the file is opened, nothing
\* is read or written yet
BulkOpen ==
    /\ op = "new"
    /\ UNCHANGED <<rng, gor>>
    /\ \/ \E file \in filesOf(CpfFileLines) :
            /\ op' = "brdoc cpf --from FILE"
            /\ arg' = file
       \/ \E file \in filesOf(CnpjFileLines) :
            /\ op' = "brdoc cnpj --from FILE"
            /\ arg' = file
    /\ cpf' = NewCPF
    /\ ret' = [NoRet EXCEPT !.ok = TRUE]

\* the error of scanner.Err() after a line that does not fit the buffer
ErrTooLong == "bufio.Scanner: token too long"

\* scanner.Scan(): on a line that fits, the loop body handles it on the
\* command's one validator; on a line that does not, Scan returns false, the
\* loop ends and the command returns scanner.Err().  ret.n counts the lines
\* handled, ret.str is what was written so far, ret.ok is ~anyInvalid, ret.label
\* the error returned
BulkScan ==
    /\ op \in {"brdoc cpf --from FILE", "brdoc cnpj --from FILE"}
    /\ ret.n < Len(arg)
    /\ ret.label = ""
    /\ IF arg[ret.n + 1].tooLong
       THEN /\ cpf' = cpf
            /\ ret' = [ret EXCEPT !.label = ErrTooLong]
       ELSE IF op = "brdoc cpf --from FILE"
       THEN LET r == cpfLine(cpf, arg[ret.n + 1].text)
            IN /\ cpf' = r.c
               /\ ret' = [ret EXCEPT !.n = @ + 1, !.str = @ \o r.out,
                                     !.ok = @ /\ ~r.anyInvalid]
       ELSE LET r == cnpjLine(arg[ret.n + 1].text)
            IN /\ cpf' = cpf
               /\ ret' = [ret EXCEPT !.n = @ + 1, !.str = @ \o r.out,
                                     !.ok = @ /\ ~r.anyInvalid]
    /\ UNCHANGED <<op, arg, rng, gor>>

NextFile == BulkOpen \/ BulkScan \/ New
SpecFile == Init /\ [][NextFile]_vars

\* the generation commands of the tool
GenCommands ==
    {"brdoc cpf --generate", "brdoc cnpj --generate", "brdoc cnpj --generate --legacy"}

\* values of --count
Counts == -1..MaxCount

\* the number of generations for a --count: a count of zero or less becomes one
countOf(count) == IF count <= 0 THEN 1 ELSE count

\* what the rng returns to one generation of a command
GenSampleBodies == {BodyOf(0), BodyOf(1), [i \in 1..9 |-> 0]}
GenSampleBases == {BaseOf(0), BaseOf(1)}

\* the result of one generation of cmd from what the rng returned
genResult(cmd, drawn) ==
    IF cmd = "brdoc cpf --generate" THEN CPF_Generate(drawn)
    ELSE IF cmd = "brdoc cnpj --generate --legacy"
    THEN generateDigits([i \in 1..12 |-> baseChar(TRUE, 0, (drawn \o drawn)[i])])
    ELSE generateDigits([i \in 1..12 |-> baseChar(FALSE, drawOf(drawn[i])[1], drawOf(drawn[i])[2])])

\* a generation command printing every result as it is
genLineRaw(cmd, result) == result

\* what a generation command prints for a result: the cpf command the result,
\* the cnpj command its Format, the error of Format dropped
genLine(cmd, result) ==
    IF cmd = "brdoc cpf --generate" THEN result ELSE CNPJ_Format(result).str

\* a generation command starts; ret.ok tells that the command has returned
GenOpen ==
    /\ op = "new"
    /\ UNCHANGED <<rng, gor>>
    /\ \E cmd \in GenCommands, count \in Counts :
         /\ op' = cmd
         /\ arg' = [count |-> count, results |-> <<>>]
         /\ ret' = [NoRet EXCEPT !.ok = (0 >= countOf(count))]
    /\ cpf' = NewCPF

\* one turn of the loop: a generation, and its line written; arg.results
\* keeps what the calls returned
GenStep ==
    /\ op \in GenCommands
    /\ ret.n < countOf(arg.count)
    /\ \E drawn \in (IF op = "brdoc cnpj --generate" THEN GenSampleBases ELSE GenSampleBodies) :
         LET result == genResult(op, drawn)
         IN /\ arg' = [arg EXCEPT !.results = Append(@, result)]
            /\ ret' = [ret EXCEPT !.n = @ + 1,
                                  !.str = @ \o genLine(op, result) \o <<ChNewline>>,
                                  !.ok = (ret.n + 1 >= countOf(arg.count))]
    /\ UNCHANGED <<cpf, op, rng, gor>>

NextGen == GenOpen \/ GenStep \/ New
SpecGen == Init /\ [][NextGen]_vars


\* strings handed to an instance that is used again: a valid CPF plain and
\* masked, one with a wrong first and one with a wrong second check digit, 11
\* equal digits, 8 and 22 digits, and none
ReuseInputs ==
    { asBytes(SampleBody \o <<0, 9>>), maskCPF(SampleBody \o <<0, 9>>),
      asBytes(SampleBody \o <<1, 9>>), asBytes(SampleBody \o <<0, 8>>),
      asBytes(BodyOf(1) \o <<8, 7>>), Repeat(<<Ch0 + 7>>, 11),
      SubSeq(asBytes(SampleBody), 1, 8), CPFLong, <<>> }

\* the calls on an instance that is kept; ret.n counts the calls it has served
ReuseOps == {"c.Validate", "c.Format", "c.CheckOrigin", "c.Generate"}
Reusable == (op = "new" \/ op \in ReuseOps) /\ ret.n < MaxCalls

ReuseValidate ==
    /\ Reusable
    /\ \E value \in ReuseInputs :
         LET r == CPF_Validate(cpf, value)
         IN /\ cpf' = r.c
            /\ op' = "c.Validate"
            /\ arg' = value
            /\ ret' = [NoRet EXCEPT !.ok = r.ok, !.n = ret.n + 1]
    /\ UNCHANGED <<rng, gor>>

ReuseFormat ==
    /\ Reusable
    /\ \E value \in ReuseInputs :
         LET r == CPF_Format(cpf, value)
         IN /\ cpf' = r.c
            /\ op' = "c.Format"
            /\ arg' = value
            /\ ret' = [NoRet EXCEPT !.ok = r.ok, !.str = r.str, !.n = ret.n + 1]
    /\ UNCHANGED <<rng, gor>>

ReuseCheckOrigin ==
    /\ Reusable
    /\ \E value \in ReuseInputs :
         LET r == CPF_CheckOrigin(cpf, value)
         IN /\ cpf' = r.c
            /\ op' = "c.CheckOrigin"
            /\ arg' = value
            /\ ret' = [NoRet EXCEPT !.label = r.label, !.panic = r.panic, !.n = ret.n + 1]
    /\ UNCHANGED <<rng, gor>>

ReuseGenerate ==
    /\ Reusable
    /\ \E drawn \in GenSampleBodies :
         /\ cpf' = cpf
         /\ op' = "c.Generate"
         /\ arg' = drawn
         /\ ret' = [NoRet EXCEPT !.ok = TRUE, !.str = CPF_Generate(drawn), !.n = ret.n + 1]
    /\ UNCHANGED <<rng, gor>>

NextReuse == ReuseValidate \/ ReuseFormat \/ ReuseCheckOrigin \/ ReuseGenerate \/ New
SpecReuse == Init /\ [][NextReuse]_vars


NextRace == GoGenerate \/ IntnLoad \/ IntnStore
SpecRace == Init /\ [][NextRace]_vars

NextSerpro == CNPJValidate \/ CNPJFormat \/ CalculateDV \/ New
SpecSerpro == Init /\ [][NextSerpro]_vars

NextBulk == CPFValidate \/ CNPJValidate \/ CLICpfLine \/ CLICnpjLine \/ New
SpecBulk == Init /\ [][NextBulk]_vars

Next ==
    \/ CPFValidate \/ CPFFormat \/ CPFCheckOrigin \/ CPFGenerate
    \/ CNPJValidate \/ CNPJFormat \/ CNPJGenerate \/ CNPJGenerateLegacy
    \/ CalculateDV
    \/ CallValidateDocument
    \/ CLICpfLine \/ CLICnpjLine
    \/ GoGenerate \/ IntnLoad \/ IntnStore
    \/ SharedCall \/ SharedClean \/ SharedRest
    \/ BulkOpen \/ BulkScan
    \/ GenOpen \/ GenStep
    \/ ReuseValidate \/ ReuseFormat \/ ReuseCheckOrigin \/ ReuseGenerate
    \/ New
Spec == Init /\ [][Next]_vars

----------------------------------------------------------------------------
(* Properties of the CPF operations.                                       *)

IsDigitByte(ch) == ch \in 48..57

\* the digits-only form of a string: its decimal digits, in order
DigitsOnly(str) == SelectSeq(str, IsDigitByte)

\* the digit values of a string of digits
valuesOf(str) == [i \in 1..Len(str) |-> str[i] - 48]

\* the ten strings of eleven equal digits
AllSame11 == { [i \in 1..11 |-> 48 + d] : d \in 0..9 }

\* the digits d carry both recomputed check digits
CheckDigitsMatch(d) ==
    /\ d[10] = calculateFirstDigit(SubSeq(d, 1, 9))
    /\ d[11] = calculateSecondDigit(SubSeq(d, 1, 10))

\* the valid CPF 123.456.789-09
CPFValid == SampleBody \o <<0, 9>>

\* C1: CPF.Validate returns false for every input with exactly 11 digits whose
\* 10th digit differs from the first check digit recomputed from digits 1..9 or
\* whose 11th digit differs from the second check digit recomputed from digits 1..10.
C1_WrongCheckDigitRejected ==
    (op = "CPF.Validate" /\ Len(DigitsOnly(arg)) = 11)
        => (~CheckDigitsMatch(valuesOf(DigitsOnly(arg))) => ret.ok = FALSE)

\* C2: CPF.Validate returns true for every input whose digits-only form has 11
\* digits, not all equal, with both check digits as recomputed, whatever
\* other characters stand around or between the digits.
C2_WellFormedAccepted ==
    (/\ op = "CPF.Validate"
     /\ Len(DigitsOnly(arg)) = 11
     /\ DigitsOnly(arg) \notin AllSame11
     /\ CheckDigitsMatch(valuesOf(DigitsOnly(arg))))
        => ret.ok = TRUE

\* a valid CPF written with spaces, letters and a slash around its digits was accepted
C2_Witness ==
    /\ op = "CPF.Validate"
    /\ arg = cpfWrite(CPFValid, "noisy")
    /\ arg # asBytes(CPFValid)
    /\ CheckDigitsMatch(valuesOf(DigitsOnly(arg)))
    /\ ret.ok = TRUE

\* C3: CPF.Validate returns false for each of the ten sequences of eleven equal
\* digits, with or without punctuation, although both of their check digits
\* are the recomputed ones.
C3_AllSameRejected ==
    (op = "CPF.Validate" /\ DigitsOnly(arg) \in AllSame11)
        => (ret.ok = FALSE /\ CheckDigitsMatch(valuesOf(DigitsOnly(arg))))

\* 777.777.777-77, punctuated, was rejected
C3_Witness ==
    /\ op = "CPF.Validate"
    /\ arg = maskCPF([i \in 1..11 |-> 7])
    /\ ret.ok = FALSE

\* C4: every string CPF.Generate returns satisfies CPF.Validate, and CPF.Format
\* of it succeeds with an output that satisfies CPF.Validate too.
C4_GeneratedValidates ==
    op = "CPF.Generate"
        => (/\ CPF_Validate(cpf, ret.str).ok
            /\ CPF_Format(cpf, ret.str).ok
            /\ CPF_Validate(cpf, CPF_Format(cpf, ret.str).str).ok)

----------------------------------------------------------------------------
(* Properties of the CNPJ operations.                                      *)

ToUpperByte(ch) == IF ch \in 97..122 THEN ch - 32 ELSE ch
IsAlnumByte(ch) == ch \in (48..57) \cup (65..90)

\* the normalized form of a string: uppercased, only 0-9 and A-Z kept
NormalForm(str) == SelectSeq([i \in 1..Len(str) |-> ToUpperByte(str[i])], IsAlnumByte)

\* c has 14 characters, the last two decimal digits equal to the check digits
\* computed from the first 12 and from the first 12 plus the computed first one
CnpjWellFormed(c) ==
    /\ Len(c) = 14
    /\ IsDigitByte(c[13])
    /\ IsDigitByte(c[14])
    /\ ~calculateDV(SubSeq(c, 1, 12)).err
    /\ c[13] - 48 = calculateDV(SubSeq(c, 1, 12)).dv
    /\ ~calculateDV(SubSeq(c, 1, 12) \o <<48 + calculateDV(SubSeq(c, 1, 12)).dv>>).err
    /\ c[14] - 48 = calculateDV(SubSeq(c, 1, 12) \o <<48 + calculateDV(SubSeq(c, 1, 12)).dv>>).dv

\* the SERPRO example 12ABC34501DE35 and its formatted form 12.ABC.345/01DE-35
CnpjExample == SampleBase \o <<51, 53>>
CnpjExampleFormatted ==
    <<49, 50, 46, 65, 66, 67, 46, 51, 52, 53, 47, 48, 49, 68, 69, 45, 51, 53>>

\* C6: CNPJ.Validate(raw) is true if and only if the normalized form of raw has
\* exactly 14 characters, its last two are decimal digits, and they equal the
\* two computed check digits; it is false whenever character 13 or 14 is a letter.
C6_CnpjValidateIff ==
    op = "CNPJ.Validate"
        => (/\ ret.ok <=> CnpjWellFormed(NormalForm(arg))
            /\ (/\ Len(NormalForm(arg)) = 14
                /\ \/ NormalForm(arg)[13] \in 65..90
                   \/ NormalForm(arg)[14] \in 65..90) => ret.ok = FALSE)

\* the example written in lowercase with its separators was accepted
C6_Witness ==
    /\ op = "CNPJ.Validate"
    /\ arg = cnpjWrite(CnpjExample, "lower")
    /\ arg # CnpjExample
    /\ ret.ok = TRUE

\* the reference modulo-11 check digit: character i counts (its code - 48) times
\* the weight 2 + ((distance from the right end) mod 8)
RECURSIVE RefSum(_, _)
RefSum(str, i) ==
    IF i > Len(str) THEN 0
    ELSE (str[i] - 48) * (2 + ((Len(str) - i) % 8)) + RefSum(str, i + 1)

RefDV(str) ==
    IF RefSum(str, 1) % 11 \in {0, 1} THEN 0 ELSE 11 - (RefSum(str, 1) % 11)

\* C7: on every string over 0-9, A-Z calculateDV returns, without error, the
\* reference modulo-11 check digit (values code - 48, weights 2..9 from the
\* right cycling back to 2 after 9, 0 for the remainders 0 and 1, else 11 - remainder).
C7_CalculateDVIsReference ==
    (op = "calculateDV" /\ \A i \in 1..Len(arg) : IsAlnumByte(arg[i]))
        => (ret.ok = TRUE /\ ret.n = RefDV(arg))

\* a 17-character string, on which the weights have cycled twice, gave its reference digit
C7_Witness ==
    /\ op = "calculateDV"
    /\ Len(arg) = 17
    /\ \A i \in 1..Len(arg) : IsAlnumByte(arg[i])
    /\ \E i \in 1..Len(arg) : arg[i] \in 65..90
    /\ ret.ok = TRUE
    /\ ret.n = RefDV(arg)
    /\ ret.n # 0

\* C8: calculateDV returns an error whenever its input holds a character
\* outside 0-9, A-Z, at any position.
C8_UnmappedCharacterIsError ==
    (op = "calculateDV" /\ \E i \in 1..Len(arg) : ~IsAlnumByte(arg[i]))
        => ret.ok = FALSE

\* a lowercase letter in the leftmost position, met last by the loop, gave the error
C8_Witness ==
    /\ op = "calculateDV"
    /\ Len(arg) = 12
    /\ arg[1] = 97
    /\ \A i \in 2..Len(arg) : IsAlnumByte(arg[i])
    /\ ret.ok = FALSE

\* the weight calculateDV applies to each position of a string of n characters,
\* read off the sums of the strings 0..010..0
appliedWeights(n) ==
    [i \in 1..n |-> dvLoop([k \in 1..n |-> IF k = i THEN 49 ELSE 48], n, 0, 0).sum]

\* C9: the weights on 12 characters are 5,4,3,2,9,8,7,6,5,4,3,2 and on 13
\* characters 6,5,4,3,2,9,8,7,6,5,4,3,2; base 12ABC34501DE has weighted sum 459
\* and check digit 3, 12ABC34501DE3 has sum 424 and check digit 5;
\* Validate("12ABC34501DE35") is true and Format gives "12.ABC.345/01DE-35".
C9_SerproExample ==
    /\ (op = "calculateDV" /\ arg = SampleBase)
          => (/\ appliedWeights(12) = <<5, 4, 3, 2, 9, 8, 7, 6, 5, 4, 3, 2>>
              /\ dvLoop(arg, 12, 0, 0).sum = 459
              /\ ret.ok
              /\ ret.n = 3)
    /\ (op = "calculateDV" /\ arg = SampleBase \o <<51>>)
          => (/\ appliedWeights(13) = <<6, 5, 4, 3, 2, 9, 8, 7, 6, 5, 4, 3, 2>>
              /\ dvLoop(arg, 13, 0, 0).sum = 424
              /\ ret.ok
              /\ ret.n = 5)
    /\ (op = "CNPJ.Validate" /\ arg = CnpjExample) => ret.ok
    /\ (op = "CNPJ.Format" /\ arg = CnpjExample)
          => (ret.ok /\ ret.str = CnpjExampleFormatted)

\* calculateDV was called on 12ABC34501DE3 and returned 5
C9_Witness ==
    /\ op = "calculateDV"
    /\ arg = SampleBase \o <<51>>
    /\ ret.ok
    /\ ret.n = 5

\* C10: every string CNPJ.Generate returns has exactly 14 characters, the 12
\* drawn base characters followed by two decimal digits, and satisfies CNPJ.Validate.
C10_CnpjGeneratedValidates ==
    op = "CNPJ.Generate"
        => (/\ Len(ret.str) = 14
            /\ SubSeq(ret.str, 1, 12) = arg
            /\ \A i \in 1..12 : IsAlnumByte(arg[i])
            /\ IsDigitByte(ret.str[13])
            /\ IsDigitByte(ret.str[14])
            /\ CNPJ_Validate(ret.str))

\* a base holding letters, with a remainder of 0 or 1 behind one of its check digits, was generated
C10_Witness ==
    /\ op = "CNPJ.Generate"
    /\ \E i \in 1..12 : arg[i] \in 65..90
    /\ Len(ret.str) = 14
    /\ (ret.str[13] = 48 \/ ret.str[14] = 48)
    /\ CNPJ_Validate(ret.str)

----------------------------------------------------------------------------
(* Properties of legacy generation and of formatting.                      *)

\* C11: every string CNPJ.GenerateLegacy returns consists of exactly 14 decimal
\* digits, satisfies CNPJ.Validate, and CNPJ.Format of it succeeds with an
\* 18-character result.
C11_LegacyGenerated ==
    op = "CNPJ.GenerateLegacy"
        => (/\ Len(ret.str) = 14
            /\ \A i \in 1..Len(ret.str) : IsDigitByte(ret.str[i])
            /\ CNPJ_Validate(ret.str)
            /\ CNPJ_Format(ret.str).ok
            /\ Len(CNPJ_Format(ret.str).str) = 18)

\* the draws 1,2,...,9,1,2,3 gave 14 digits that validate
C11_Witness ==
    /\ op = "CNPJ.GenerateLegacy"
    /\ arg = asBytes(SampleBody \o <<1, 2, 3>>)
    /\ Len(ret.str) = 14
    /\ CNPJ_Validate(ret.str)

\* ddd.ddd.ddd-dd written with the 11 digit characters d
CpfPattern(d) ==
    SubSeq(d, 1, 3) \o <<46>> \o SubSeq(d, 4, 6) \o <<46>> \o SubSeq(d, 7, 9)
    \o <<45>> \o SubSeq(d, 10, 11)

\* XX.XXX.XXX/XXXX-XX written with the 14 characters c
CnpjPattern(c) ==
    SubSeq(c, 1, 2) \o <<46>> \o SubSeq(c, 3, 5) \o <<46>> \o SubSeq(c, 6, 8)
    \o <<47>> \o SubSeq(c, 9, 12) \o <<45>> \o SubSeq(c, 13, 14)

\* C12: CPF.Format(raw) returns an error exactly when the digits-only form of
\* raw is one of the ten all-same-digit sequences or has not exactly 11 digits;
\* otherwise it returns, whatever the check digits, the 14 characters
\* ddd.ddd.ddd-dd carrying the 11 digits in order.
C12_CpfFormat ==
    op = "CPF.Format"
        => IF DigitsOnly(arg) \in AllSame11 \/ Len(DigitsOnly(arg)) # 11
           THEN ret.ok = FALSE
           ELSE /\ ret.ok = TRUE
                /\ Len(ret.str) = 14
                /\ ret.str = CpfPattern(DigitsOnly(arg))

\* 12345678900, whose check digits are wrong, was formatted as 123.456.789-00
C12_Witness ==
    /\ op = "CPF.Format"
    /\ arg = asBytes(SampleBody \o <<0, 0>>)
    /\ ~CheckDigitsMatch(valuesOf(DigitsOnly(arg)))
    /\ ret.ok = TRUE
    /\ ret.str = <<49, 50, 51, 46, 52, 53, 54, 46, 55, 56, 57, 45, 48, 48>>

\* C13 as stated: for both validators Format returns an error if and only if
\* the normalized length is wrong (digit count other than 11 for CPF.Format,
\* character count other than 14 for CNPJ.Format).
C13_FormatErrorIffLength ==
    /\ op = "CPF.Format" => (ret.ok = FALSE <=> Len(DigitsOnly(arg)) # 11)
    /\ op = "CNPJ.Format" => (ret.ok = FALSE <=> Len(NormalForm(arg)) # 14)

\* C13 as amended: CNPJ.Format returns an error if and only if the normalized
\* form has not 14 characters; CPF.Format returns an error if and only if the
\* digit count is not 11 or the 11 digits are all the same.
C13_FormatErrorIffLengthOrAllSame ==
    /\ op = "CPF.Format"
          => (ret.ok = FALSE <=> (Len(DigitsOnly(arg)) # 11 \/ DigitsOnly(arg) \in AllSame11))
    /\ op = "CNPJ.Format" => (ret.ok = FALSE <=> Len(NormalForm(arg)) # 14)

\* 222.222.222-22 has 11 digits and CPF.Format returned an error
C13_Witness ==
    /\ op = "CPF.Format"
    /\ arg = maskCPF([i \in 1..11 |-> 2])
    /\ Len(DigitsOnly(arg)) = 11
    /\ ret.ok = FALSE

\* C14: CNPJ.Format(raw) returns an error exactly when the normalized form of
\* raw has not 14 characters; otherwise it returns, whatever the check digits,
\* the 18 characters XX.XXX.XXX/XXXX-XX carrying the normalized characters in order.
C14_CnpjFormat ==
    op = "CNPJ.Format"
        => IF Len(NormalForm(arg)) # 14
           THEN ret.ok = FALSE
           ELSE /\ ret.ok = TRUE
                /\ Len(ret.str) = 18
                /\ ret.str = CnpjPattern(NormalForm(arg))

\* the lowercase example with check characters Z and A was formatted in uppercase
C14_Witness ==
    /\ op = "CNPJ.Format"
    /\ arg = cnpjWrite(SampleBase \o <<90, 65>>, "lower")
    /\ ~CnpjWellFormed(NormalForm(arg))
    /\ ret.ok = TRUE
    /\ ret.str = <<49, 50, 46, 65, 66, 67, 46, 51, 52, 53, 47, 48, 49, 68, 69, 45, 90, 65>>

\* a string without its periods, hyphens, slashes and spaces
StripPunct(s) == SelectSeq(s, LAMBDA ch : ch \notin {46, 45, 47, 32})

\* C15: formatting is idempotent and insensitive to punctuation: when CPF.Format
\* or CNPJ.Format succeeds on x, formatting its result again, and formatting its
\* result with the punctuation removed, both succeed and give the same result.
C15_FormatIdempotent ==
    /\ (op = "CPF.Format" /\ ret.ok)
          => /\ CPF_Format(cpf, ret.str).ok
             /\ CPF_Format(cpf, ret.str).str = ret.str
             /\ CPF_Format(cpf, StripPunct(ret.str)).ok
             /\ CPF_Format(cpf, StripPunct(ret.str)).str = ret.str
    /\ (op = "CNPJ.Format" /\ ret.ok)
          => /\ CNPJ_Format(ret.str).ok
             /\ CNPJ_Format(ret.str).str = ret.str
             /\ CNPJ_Format(StripPunct(ret.str)).ok
             /\ CNPJ_Format(StripPunct(ret.str)).str = ret.str

\* the noisy writing of 12345678909 was formatted, and its result stripped of
\* punctuation is the 11 digits
C15_Witness ==
    /\ op = "CPF.Format"
    /\ arg = cpfWrite(SampleBody \o <<0, 9>>, "noisy")
    /\ ret.ok
    /\ StripPunct(ret.str) = asBytes(SampleBody \o <<0, 9>>)
    /\ StripPunct(ret.str) # ret.str

\* C16: validity is preserved by formatting: when Validate accepts x, Format(x)
\* succeeds and Validate accepts its result; and a line of a bulk validation is
\* never answered with the bare text "valid".
C16_ValidityPreserved ==
    /\ (op = "CPF.Validate" /\ ret.ok)
          => /\ CPF_Format(cpf, arg).ok
             /\ CPF_Validate(CPF_Format(cpf, arg).c, CPF_Format(cpf, arg).str).ok
    /\ (op = "CNPJ.Validate" /\ ret.ok)
          => /\ CNPJ_Format(arg).ok
             /\ CNPJ_Validate(CNPJ_Format(arg).str)
    /\ op \in {"brdoc cpf --from", "brdoc cnpj --from"}
          => ret.str # <<118, 97, 108, 105, 100, 10>>

\* an indented line holding a valid CPF was answered with valid, a tab and the
\* formatted CPF
C16_Witness ==
    /\ op = "brdoc cpf --from"
    /\ arg = <<32, 9>> \o asBytes(SampleBody \o <<0, 9>>) \o <<13>>
    /\ ret.ok
    /\ ret.str = <<118, 97, 108, 105, 100, 9>> \o CpfPattern(asBytes(SampleBody \o <<0, 9>>)) \o <<10>>

----------------------------------------------------------------------------
(* Properties of CheckOrigin and of ValidateDocument, and totality.        *)

\* the label of each of the ten digits, in order
RegionLabels ==
    << IsDigit0, IsDigit1, IsDigit2, IsDigit3, IsDigit4,
       IsDigit5, IsDigit6, IsDigit7, IsDigit8, IsDigit9 >>

\* C17: CPF.CheckOrigin(raw) returns the empty string when raw has fewer than 9
\* digits, and otherwise the non-empty label fixed for the digit at index 8 of
\* the digits-only form, whatever the validity and the digit count of raw.
C17_CheckOrigin ==
    op = "CPF.CheckOrigin"
        => IF Len(DigitsOnly(arg)) < 9
           THEN ret.label = ""
           ELSE /\ ret.label # ""
                /\ ret.label = RegionLabels[DigitsOnly(arg)[9] - 48 + 1]

\* a string of 15 digits that is no CPF got the label of its ninth digit
C17_Witness ==
    /\ op = "CPF.CheckOrigin"
    /\ arg = SubSeq(CPFLong, 1, 16)
    /\ Len(DigitsOnly(arg)) = 15
    /\ ret.label = IsDigit9

\* doc without its periods, hyphens and slashes
StripSeparators(doc) == SelectSeq(doc, LAMBDA ch : ch \notin {46, 45, 47})

IsAscii(s) == \A i \in 1..Len(s) : s[i] < 128

\* what ValidateDocument is to return for doc when it dispatches on the length n
DispatchOn(n, doc) ==
    IF n = 11 THEN /\ ret.label = "CPF"
                   /\ ret.ok = CPF_Validate(NewCPF, doc).ok
                   /\ ret.callee = "CPF.Validate"
    ELSE IF n = 14 THEN /\ ret.label = "CNPJ"
                        /\ ret.ok = CNPJ_Validate(doc)
                        /\ ret.callee = "CNPJ.Validate"
    ELSE /\ ret.label = "UNKNOWN"
         /\ ret.ok = FALSE
         /\ ret.callee = ""

\* C18 as stated: ValidateDocument(doc) removes every '.', '-' and '/' and
\* dispatches on the remaining length: 11 gives "CPF" and CPF.Validate(doc), 14
\* gives "CNPJ" and CNPJ.Validate(doc), any other length ("UNKNOWN", false)
\* without a call of a validator.
C18_DispatchOnRemainingLength ==
    op = "ValidateDocument" => DispatchOn(Len(StripSeparators(arg)), arg)

\* C18 as amended: ValidateDocument dispatches in that way on the length of the
\* remainder after it is uppercased by strings.ToUpper, which is the remaining
\* length whenever doc is ASCII text.
C18_DispatchOnUppercasedLength ==
    op = "ValidateDocument"
        => DispatchOn(IF IsAscii(arg) THEN Len(StripSeparators(arg))
                      ELSE Len(ToUpper(StripSeparators(arg))), arg)

\* ten digits and a dotless i: 12 bytes remain, 11 after uppercasing, and the
\* answer was ("CPF", false)
C18_Witness ==
    /\ op = "ValidateDocument"
    /\ arg = <<49, 50, 51, 52, 53, 54, 55, 56, 57, 48, 196, 177>>
    /\ Len(StripSeparators(arg)) = 12
    /\ ret.label = "CPF"
    /\ ret.ok = FALSE

\* C19: validation is total: for every input string CPF.Validate, CNPJ.Validate,
\* CPF.CheckOrigin and ValidateDocument return a value and never panic.
C19_Total ==
    op \in {"CPF.Validate", "CNPJ.Validate", "CPF.CheckOrigin", "ValidateDocument"}
        => /\ ret.panic = FALSE
           /\ ret.ok \in BOOLEAN
           /\ op = "ValidateDocument" => ret.label \in {"CPF", "CNPJ", "UNKNOWN"}

\* CheckOrigin returned the empty label for a string of eight digits and a byte 255
C19_Witness ==
    /\ op = "CPF.CheckOrigin"
    /\ arg = <<49, 50, 51, 52, 53, 54, 55, 56, 255>>
    /\ ret.panic = FALSE
    /\ ret.label = ""

----------------------------------------------------------------------------
(* Properties of the shared random source.                                 *)

\* the goroutines that have read the state of the source and not yet written it
InsideIntn == { g \in Goroutines : gor[g].pc = "store" }

\* C20: the shared random source is safe for concurrent use: when several
\* goroutines call CPF.Generate, CNPJ.Generate or CNPJ.GenerateLegacy at the same
\* time, no two of them read and update the state of the source concurrently.
C20_NoRaceOnRng == Cardinality(InsideIntn) <= 1

----------------------------------------------------------------------------
(* Properties of shared validators, of the check digits and of the tool.   *)

\* the result of the call made alone, on a validator no one else uses
aloneOn(call, value) == afterClean(call, clean(NewCPF, value), value).res

\* C21: apart from the random source there is no shared mutable state: when two
\* goroutines call Validate, Format or CheckOrigin on the same *CPF at the same
\* time, each call returns exactly what the same call made alone returns.
C21_SharedValidatorCallsAgree ==
    \A g \in Goroutines :
        gor[g].pc = "done" /\ gor[g].call \in {"CPF.Validate", "CPF.Format", "CPF.CheckOrigin"}
            => gor[g].res = aloneOn(gor[g].call, gor[g].value)

\* the reference first check digit of the nine digits d
RefFirstDigit(d) ==
    LET sum == d[1] * 10 + d[2] * 9 + d[3] * 8 + d[4] * 7 + d[5] * 6
               + d[6] * 5 + d[7] * 4 + d[8] * 3 + d[9] * 2
    IN IF (sum * 10) % 11 = 10 THEN 0 ELSE (sum * 10) % 11

\* the reference second check digit of the ten digits d
RefSecondDigit(d) ==
    LET sum == d[1] * 11 + d[2] * 10 + d[3] * 9 + d[4] * 8 + d[5] * 7
               + d[6] * 6 + d[7] * 5 + d[8] * 4 + d[9] * 3 + d[10] * 2
    IN IF (sum * 10) % 11 = 10 THEN 0 ELSE (sum * 10) % 11

\* C22: the CPF check digits equal the reference: the first is ((sum of
\* d[i]*(10-i), i=0..8) * 10) mod 11, the second ((sum of d[i]*(11-i), i=0..9)
\* * 10) mod 11 over the body plus the first check digit, each with a remainder
\* of 10 replaced by 0, and each a single digit 0..9.
C22_CheckDigitsAreReference ==
    op = "CPF.Generate"
        => /\ ret.str[10] - 48 = RefFirstDigit(arg)
           /\ ret.str[11] - 48 = RefSecondDigit(arg \o <<RefFirstDigit(arg)>>)
           /\ ret.str[10] - 48 \in 0..9
           /\ ret.str[11] - 48 \in 0..9

\* for the body 123456789 the first remainder is 10 and the first check digit 0
C22_Witness ==
    /\ op = "CPF.Generate"
    /\ arg = SampleBody
    /\ (210 * 10) % 11 = 10
    /\ ret.str[10] = 48
    /\ ret.str[11] = 57

RECURSIVE SplitLines(_, _)
\* the lines of a text, each ended by a newline; cur is the line begun
SplitLines(text, cur) ==
    IF text = <<>> THEN (IF cur = <<>> THEN <<>> ELSE <<cur>>)
    ELSE IF Head(text) = 10 THEN <<cur>> \o SplitLines(Tail(text), <<>>)
    ELSE SplitLines(Tail(text), Append(cur, Head(text)))

\* the lines of a file that are neither blank nor comments
IsKept(line) ==
    line.tooLong \/ (TrimSpace(line.text) # <<>> /\ Head(TrimSpace(line.text)) # 35)
Kept(file) == SelectSeq(file, IsKept)

\* the output line the claim gives for a line the cpf or cnpj command keeps
AnswerTo(cmd, line) ==
    LET t == TrimSpace(line.text)
    IN IF cmd = "brdoc cpf --from FILE"
       THEN IF CPF_Validate(NewCPF, t).ok
            THEN <<118, 97, 108, 105, 100, 9>> \o CPF_Format(NewCPF, t).str
            ELSE <<105, 110, 118, 97, 108, 105, 100, 9>> \o t
       ELSE IF CNPJ_Validate(t)
            THEN <<118, 97, 108, 105, 100, 9>> \o CNPJ_Format(t).str
            ELSE <<105, 110, 118, 97, 108, 105, 100, 9>> \o t

\* the output consists of the answers to the kept ones of the given lines, in order
AnswersInOrder(file) ==
    LET kept == Kept(file)
        lines == SplitLines(ret.str, <<>>)
    IN /\ Len(lines) = Len(kept)
       /\ \A k \in 1..Len(kept) : lines[k] = AnswerTo(op, kept[k])
       /\ (ret.str # <<>> => ret.str[Len(ret.str)] = 10)

\* the command has returned: the file is at its end or the scanner gave up
BulkReturned ==
    /\ op \in {"brdoc cpf --from FILE", "brdoc cnpj --from FILE"}
    /\ (ret.n = Len(arg) \/ ret.label # "")

\* C23 as stated: a bulk validation handles the lines in input order: blank
\* lines and lines beginning with '#' (after trimming) produce no output and
\* every other line exactly one, valid<TAB>formatted value or invalid<TAB>trimmed
\* line, so the k-th output line belongs to the k-th line that is not skipped.
C23_EveryLineAnswered == BulkReturned => AnswersInOrder(arg)

\* C23 as amended: that holds of the lines before the first line that exceeds
\* the scanner's limit of maxLine bytes; at such a line the command stops with
\* the scanner's error and writes nothing for it or for the lines after it.
C23_LinesBeforeTooLongAnswered ==
    op \in {"brdoc cpf --from FILE", "brdoc cnpj --from FILE"}
        => /\ AnswersInOrder(SubSeq(arg, 1, ret.n))
           /\ \A k \in 1..ret.n : ~arg[k].tooLong
           /\ (ret.label # "" => ret.n < Len(arg) /\ arg[ret.n + 1].tooLong)
           /\ (BulkReturned /\ ret.label = "" => ret.n = Len(arg))

\* a file of an invalid line, a line too long and a valid line: the command
\* wrote the answer to the first line and returned the scanner's error
C23_Witness ==
    /\ op = "brdoc cpf --from FILE"
    /\ Len(arg) = 3
    /\ arg[1] = [text |-> asBytes(SampleBody \o <<0, 0>>) \o <<32>>, tooLong |-> FALSE]
    /\ arg[2].tooLong
    /\ arg[3] = [text |-> asBytes(SampleBody \o <<0, 9>>), tooLong |-> FALSE]
    /\ ret.n = 1
    /\ ret.label = "bufio.Scanner: token too long"
    /\ SplitLines(ret.str, <<>>)
         = << <<105, 110, 118, 97, 108, 105, 100, 9>> \o asBytes(SampleBody \o <<0, 0>>) >>


\* the number of lines a generation command writes for its --count
LinesAsked == IF arg.count >= 1 THEN arg.count ELSE 1

\* a generation command has returned
GenReturned == op \in {"brdoc cpf --generate", "brdoc cnpj --generate",
                       "brdoc cnpj --generate --legacy"} /\ ret.ok

\* the calls made and the lines written are as many as asked for
GenCounted ==
    /\ Len(arg.results) = LinesAsked
    /\ Len(SplitLines(ret.str, <<>>)) = LinesAsked
    /\ ret.str[Len(ret.str)] = 10

\* XX.XXX.XXX/XXXX-XX of 14 characters
Punctuated(r) ==
    << r[1], r[2], 46, r[3], r[4], r[5], 46, r[6], r[7], r[8], 47,
       r[9], r[10], r[11], r[12], 45, r[13], r[14] >>

\* C24 as stated: in generation mode the cpf and the cnpj command call Generate
\* (GenerateLegacy under --legacy) N times and write exactly N lines, the k-th
\* line being the unformatted result of the k-th call.
C24_GeneratedLinesRaw ==
    GenReturned =>
        /\ GenCounted
        /\ \A k \in 1..LinesAsked : SplitLines(ret.str, <<>>)[k] = arg.results[k]

\* C24 as amended: N calls and N lines; a line of the cpf command is the
\* unformatted result of its call, a line of the cnpj command is the result of
\* its call formatted as XX.XXX.XXX/XXXX-XX.
C24_GeneratedLines ==
    GenReturned =>
        /\ GenCounted
        /\ \A k \in 1..LinesAsked :
             SplitLines(ret.str, <<>>)[k]
               = IF op = "brdoc cpf --generate" THEN arg.results[k]
                 ELSE Punctuated(arg.results[k])

\* brdoc cnpj --generate --count 2 has written its two formatted lines
C24_Witness ==
    /\ op = "brdoc cnpj --generate"
    /\ arg.count = 2
    /\ ret.ok
    /\ Len(arg.results) = 2
    /\ Len(arg.results[1]) = 14
    /\ Len(ret.str) = 38
    /\ SplitLines(ret.str, <<>>)[2] = Punctuated(arg.results[2])


\* the digits of a string as numbers
DigitValues(value) == valuesOf(DigitsOnly(value))

\* C25: CPF normalization keeps every decimal digit of the input in order and
\* drops everything else, without truncation also beyond 11 digits, and
\* normalizing a normalized value returns it unchanged.
C25_NormalizeKeepsAllDigits ==
    op \in {"CPF.Validate", "CPF.Format", "CPF.CheckOrigin"} =>
        /\ digits(arg) = DigitsOnly(arg)
        /\ digits(digits(arg)) = digits(arg)
        /\ clean(NewCPF, arg).num = DigitValues(arg)
        /\ clean(NewCPF, digits(arg)).num = clean(NewCPF, arg).num
        /\ (op # "CPF.Validate" => cpf.num = DigitValues(arg))

\* CheckOrigin normalized a string of 22 digits and 3 separators
C25_Witness ==
    /\ op = "CPF.CheckOrigin"
    /\ Len(arg) = 25
    /\ Len(digits(arg)) = 22
    /\ Len(cpf.num) = 22
    /\ arg[15] = 46


\* the characters CNPJ normalization keeps: 0-9, A-Z and a-z
IsSignificant(ch) == ch \in 48..57 \/ ch \in 65..90 \/ ch \in 97..122

\* a string with each letter a-z replaced by its uppercase form
Uppercased(str) == [i \in 1..Len(str) |-> IF str[i] \in 97..122 THEN str[i] - 32 ELSE str[i]]

\* a string with each letter A-Z replaced by its lowercase form
Lowercased(str) == [i \in 1..Len(str) |-> IF str[i] \in 65..90 THEN str[i] + 32 ELSE str[i]]

\* C26: CNPJ normalization keeps 0-9 and A-Z, keeps a-z as uppercase and drops
\* every other character, in order and without truncation; it is idempotent,
\* and Validate and Format give the same result for an input and for its
\* lowercased form.
C26_NormalizeUppercasesAndKeeps ==
    op \in {"CNPJ.Validate", "CNPJ.Format"} =>
        /\ cnpjDigits(arg) = Uppercased(SelectSeq(arg, IsSignificant))
        /\ cnpjDigits(cnpjDigits(arg)) = cnpjDigits(arg)
        /\ cnpjDigits(Lowercased(arg)) = cnpjDigits(arg)
        /\ (op = "CNPJ.Validate" => ret.ok = CNPJ_Validate(Lowercased(arg)))
        /\ (op = "CNPJ.Format" =>
              /\ ret.ok = CNPJ_Format(Lowercased(arg)).ok
              /\ ret.str = CNPJ_Format(Lowercased(arg)).str)

\* Validate normalized a string of 28 letters and digits, the later ones in
\* lower case, and 4 separators
C26_Witness ==
    /\ op = "CNPJ.Validate"
    /\ Len(arg) = 32
    /\ Len(cnpjDigits(arg)) = 28
    /\ arg[18] = 97
    /\ cnpjDigits(arg)[17] = 65
    /\ ~ret.ok


\* C27: a CPF instance carries no state from one call to the next: after any
\* earlier Validate, Format, CheckOrigin and Generate calls on it, a call
\* returns what a fresh instance returns for the same argument.
C27_ReusedInstanceAsFresh ==
    /\ (op = "c.Validate" => ret.ok = CPF_Validate(NewCPF, arg).ok)
    /\ (op = "c.Format" =>
          /\ ret.ok = CPF_Format(NewCPF, arg).ok
          /\ ret.str = CPF_Format(NewCPF, arg).str)
    /\ (op = "c.CheckOrigin" =>
          /\ ret.label = CPF_CheckOrigin(NewCPF, arg).label
          /\ ret.panic = CPF_CheckOrigin(NewCPF, arg).panic)
    /\ (op = "c.Generate" => ret.str = CPF_Generate(arg))

\* the third call on an instance, a Validate of 11 digits that is accepted; the
\* buffer of the instance has grown in an earlier call on 22 digits
C27_Witness ==
    /\ op = "c.Validate"
    /\ ret.n = 3
    /\ ret.ok
    /\ Len(arg) = 11
    /\ cpf.cap > 11


\* C28: ValidateDocument agrees with the two validators on every string: when
\* CPF.Validate(doc) is true it returns ("CPF", true), and when
\* CNPJ.Validate(doc) is true it returns ("CNPJ", true).
C28_DocumentAgreesWithValidators ==
    op = "ValidateDocument" =>
        /\ (CPF_Validate(NewCPF, arg).ok => (ret.label = "CPF" /\ ret.ok))
        /\ (CNPJ_Validate(arg) => (ret.label = "CNPJ" /\ ret.ok))


\* a non-empty string over 0-9 and A-Z
IsAlnumString(str) == str # <<>> /\ \A i \in 1..Len(str) : IsAlnumByte(str[i])

\* C29: calculateDV returns a value of 0..9 for every non-empty string over
\* 0-9 and A-Z, so the first check digit computed in Validate is written as
\* one decimal character and the second is computed over 13 characters.
C29_CheckDigitIsOneDecimal ==
    /\ (op = "calculateDV" /\ IsAlnumString(arg)) => (ret.ok /\ ret.n \in 0..9)
    /\ (op = "CNPJ.Validate" /\ Len(cnpjDigits(arg)) = 14) =>
          LET base == SubSeq(cnpjDigits(arg), 1, 12)
              dv1 == calculateDV(base)
          IN /\ ~dv1.err
             /\ dv1.dv \in 0..9
             /\ Itoa(dv1.dv) = <<48 + dv1.dv>>
             /\ Len(base \o Itoa(dv1.dv)) = 13
             /\ ~calculateDV(base \o Itoa(dv1.dv)).err
             /\ calculateDV(base \o Itoa(dv1.dv)).dv \in 0..9

\* calculateDV on 12 letters and digits whose weighted sum leaves the
\* remainder 1: the result is 0, not 10
C29_Witness ==
    /\ op = "calculateDV"
    /\ Len(arg) = 12
    /\ IsAlnumString(arg)
    /\ dvLoop(arg, Len(arg), 0, 0).sum % 11 = 1
    /\ ret.ok
    /\ ret.n = 0


\* C30: the error of calculateDV is out of reach of the public operations:
\* Validate calls it on normalized characters only and never returns false
\* because of it, and Generate and GenerateLegacy, which call it on drawn
\* characters of 0-9 and A-Z, never return the empty string.
C30_CheckDigitErrorUnreachable ==
    /\ op = "CNPJ.Validate" =>
          /\ \A i \in 1..Len(cnpjDigits(arg)) : cnpjDigits(arg)[i] \in DOMAIN charToValue
          /\ ~CNPJ_ValidateErr(arg)
    /\ op \in {"CNPJ.Generate", "CNPJ.GenerateLegacy"} =>
          /\ \A i \in 1..Len(arg) : arg[i] \in DOMAIN charToValue
          /\ ret.str # <<>>
          /\ Len(ret.str) = 14

\* Validate accepted a CNPJ written with lowercase letters after a space, none
\* of which calculateDV maps
C30_Witness ==
    /\ op = "CNPJ.Validate"
    /\ Len(arg) = 19
    /\ arg[1] = 32
    /\ \E i \in 1..Len(arg) : arg[i] \in 97..122 /\ arg[i] \notin DOMAIN charToValue
    /\ Len(cnpjDigits(arg)) = 14
    /\ ret.ok

=============================================================================
